---- MODULE Spec2Model ----
(***************************************************************************)
(* Verification model of the Video_productor pipeline.                     *)
(*                                                                         *)
(*  - group_words_into_captions (src/utils/caption_overlay.py): the loop   *)
(*    over the timed words, one action per iteration (SpecGroup).          *)
(*  - compose_final_video (src/utils/video_composer.py): the loop over the *)
(*    scenes of the script, one action per iteration (SpecCompose).        *)
(*  - create_subtitle (src/utils/audio_generator_fr.py): the loop over    *)
(*    the word-boundary events, one action per iteration (SpecSubtitle).   *)
(*  - run_pipeline (src/main.py): one call and one return per stage        *)
(*    (SpecPipeline).                                                      *)
(*  - load_captions followed by group_words_into_captions, as              *)
(*    add_captions_to_video calls them (SpecCaptions).                     *)
(*                                                                         *)
(*  - group_words_into_captions on blank words (SpecBlank) and called      *)
(*    again on its own blocks (SpecRegroup).                               *)
(*  - the bulk mode loop of src/streamlit_app.py (SpecBulk).               *)
(*  - get_rotating_api_key and save_video of                               *)
(*    src/utils/stock_video_finder.py (SpecKeys, SpecSave).                *)
(*  - format_time_srt, azure_tts_v1 and azure_tts_v2 of                    *)
(*    src/utils/audio_generator_fr.py (SpecFmt, SpecTts).                  *)
(*  - generate_images (SpecImages), and prompt extraction, image           *)
(*    generation and composition in one run (SpecRun).                     *)
(*                                                                         *)
(* Times are whole time units; texts are sequences of one-character        *)
(* strings, so that " ".join and splitting on spaces are computed.         *)
(***************************************************************************)
EXTENDS Integers, Sequences, FiniteSets, TLC

\* ------------------------------------------------------------------ bounds
\* longest timed-word list given to group_words_into_captions
MaxLen == 3
\* max_words_per_caption ranges over 1..MaxCapWords
MaxCapWords == 2
\* max_duration_per_caption ranges over 1..MaxCapDur
MaxCapDur == 3

\* longest scenes list given to compose_final_video
MaxScenes == 2
\* the images directory holds 1.jpeg .. n.jpeg, with n at most the number
\* of scenes (a pool that runs out) or n = MaxPool (two-digit file names)
MaxPool == 10
\* durations of a video file (hook, stock video, product video), in seconds:
\* one below and one above MAX_HOOK_DURATION
AssetDurations == {2, 5}

\* durations of a spoken word, and silences between two words
WordDurations == {1, 2}
WordGaps == {0, 1}
\* the texts a timed word carries: a bare word, a word with punctuation
WordTexts == {<<"a">>, <<"b", ",">>}

\* bulk mode: longest CSV file, in lines after the header
MaxCsvLines == 3

\* key rotation: longest list of API keys of one provider, most calls
MaxKeys == 3
MaxKeyCalls == 5

\* format_time_srt: the times tried are the FmtBases plus 0..MaxFmtOffset ms
MaxFmtOffset == 3

\* save_video: most calls for the one URL
MaxSaveCalls == 3

\* generate_images: longest prompts list; images left by an earlier run
MaxPrompts == 12
MaxPrevious == 1

\* Python's None for current_start_time / last_word_end_time (times are >= 0)
None == 0 - 1

VARIABLES
    \* group_words_into_captions: arguments
    timed_words, max_words_per_caption, max_duration_per_caption,
    \* group_words_into_captions: locals
    i, grouped_captions, current_group_words, current_start_time,
    last_word_end_time, gpc,
    \* compose_final_video: argument script_data["scenes"]
    scenes,
    \* compose_final_video: locals
    scene_idx, video_clips, ai_image_index, error_occurred, timeline,
    cpc, result,
    \* what the file system answered so far ("unknown" before the first look)
    hook_file, product_image_file, product_video_file, ai_images_count,
    \* compose_final_video: argument stock_videos_map, per scene_number
    \* ("unknown" before the first look, then "paths" or "none")
    stock_videos_map,
    \* create_subtitle: arguments sub_maker (subs zipped with offset) and
    \* text (already split into script_lines)
    subs, script_lines,
    \* create_subtitle: locals (word_idx and script_line_idx count from 0)
    word_idx, script_line_idx, processed_words, start_time_ns,
    current_sub_line, sub_index, sub_items, spc, subtitle_success,
    \* run_pipeline: position, the stage whose call has not returned yet,
    \* the stages that returned with their outcomes, the file at
    \* final_video_with_captions_path, the returned value
    ppc, running, stage_log, final_video, returned,
    \* load_captions: the content of the captions JSON file, the outcome
    captions_json, load_result,
    \* bulk mode of streamlit_app.py: the lines of the CSV file after the header,
    \* total, the loop index i, the results list, the position, the seconds
    \* slept since the last run returned, the runs that have not returned
    csv_lines, total, bulk_i, results, bpc, slept, active,
    \* stock_video_finder.py: the two key lists of my_config.json, the module
    \* globals _pexels_key_index and _pixabay_key_index, the calls of
    \* get_rotating_api_key so far with what each returned
    pexels_api_keys, pixabay_api_keys, pexels_key_index, pixabay_key_index, key_calls,
    \* format_time_srt: the time passed, the text returned, the position
    fmt_ticks, fmt_text, fpc,
    \* regrouping: which call of group_words_into_captions is running (0: none),
    \* the blocks the first call returned
    pass, first_blocks,
    \* save_video: what is at video_path, the calls so far (how the download
    \* ended, what was returned, what was at video_path on return)
    video_file, save_log,
    \* generate_images: the texts of the prompts file, the loop index, the
    \* images directory, generated_image_paths (as file numbers), the position
    prompts, prompt_i, images_dir, generated_image_paths, ipc,
    \* azure_tts_v1 / azure_tts_v2: which one runs, the loop index i, how the
    \* attempts so far ended, the value returned, the position
    tts_version, tts_i, attempts, tts_result, tpc

groupVars == <<timed_words, max_words_per_caption, max_duration_per_caption,
               i, grouped_captions, current_group_words, current_start_time,
               last_word_end_time, gpc>>

composeVars == <<scenes, scene_idx, video_clips, ai_image_index, error_occurred,
                 timeline, cpc, result, hook_file, product_image_file,
                 product_video_file, ai_images_count, stock_videos_map>>

subtitleVars == <<subs, script_lines, word_idx, script_line_idx, processed_words,
                  start_time_ns, current_sub_line, sub_index, sub_items, spc,
                  subtitle_success>>

pipelineVars == <<ppc, running, stage_log, final_video, returned>>

loadVars == <<captions_json, load_result>>

bulkVars == <<csv_lines, total, bulk_i, results, bpc, slept, active>>

keyVars == <<pexels_api_keys, pixabay_api_keys, pexels_key_index, pixabay_key_index, key_calls>>

fmtVars == <<fmt_ticks, fmt_text, fpc>>

regroupVars == <<pass, first_blocks>>

saveVars == <<video_file, save_log>>

imageVars == <<prompts, prompt_i, images_dir, generated_image_paths, ipc>>

ttsVars == <<tts_version, tts_i, attempts, tts_result, tpc>>

toolVars == <<bulkVars, keyVars, fmtVars, regroupVars, saveVars, imageVars, ttsVars>>

vars == <<groupVars, composeVars, subtitleVars, pipelineVars, loadVars,
          toolVars>>

\* what an action of one function leaves alone: the other functions' state
outsideGroup == <<composeVars, subtitleVars, pipelineVars, loadVars, toolVars>>
outsideCompose == <<groupVars, subtitleVars, pipelineVars, loadVars, toolVars>>
outsideSubtitle == <<groupVars, composeVars, pipelineVars, loadVars, toolVars>>
outsidePipeline == <<groupVars, composeVars, subtitleVars, loadVars, toolVars>>
outsideLoad == <<composeVars, subtitleVars, pipelineVars, toolVars>>
outsideBulk ==
    <<groupVars, composeVars, subtitleVars, pipelineVars, loadVars, keyVars, fmtVars, regroupVars, saveVars, imageVars, ttsVars>>
outsideKeys ==
    <<groupVars, composeVars, subtitleVars, pipelineVars, loadVars, bulkVars, fmtVars, regroupVars, saveVars, imageVars, ttsVars>>
outsideFmt ==
    <<groupVars, composeVars, subtitleVars, pipelineVars, loadVars, bulkVars, keyVars, regroupVars, saveVars, imageVars, ttsVars>>
outsideRegroup ==
    <<composeVars, subtitleVars, pipelineVars, loadVars, bulkVars, keyVars, fmtVars, saveVars, imageVars, ttsVars>>
outsideSave ==
    <<groupVars, composeVars, subtitleVars, pipelineVars, loadVars, bulkVars, keyVars, fmtVars, regroupVars, imageVars, ttsVars>>
outsideImages ==
    <<groupVars, composeVars, subtitleVars, pipelineVars, loadVars, bulkVars, keyVars, fmtVars, regroupVars, saveVars, ttsVars>>
outsideTts ==
    <<groupVars, composeVars, subtitleVars, pipelineVars, loadVars, bulkVars, keyVars, fmtVars, regroupVars, saveVars, imageVars>>

\* ---------------------------------------------------------------- helpers
RECURSIVE Join(_)
\* " ".join(words)
Join(ws) ==
    IF ws = <<>> THEN <<>>
    ELSE IF Len(ws) = 1 THEN ws[1]
    ELSE ws[1] \o <<" ">> \o Join(Tail(ws))

RECURSIVE SplitFrom(_, _, _)
\* text.split(" ") scanning from position p with the word cur being built
SplitFrom(t, p, cur) ==
    IF p > Len(t) THEN (IF cur = <<>> THEN <<>> ELSE <<cur>>)
    ELSE IF t[p] = " "
         THEN (IF cur = <<>> THEN <<>> ELSE <<cur>>) \o SplitFrom(t, p + 1, <<>>)
         ELSE SplitFrom(t, p + 1, Append(cur, t[p]))

Split(t) == SplitFrom(t, 1, <<>>)

RECURSIVE SeqsUpTo(_, _)
\* the sequences of at most n elements of S
SeqsUpTo(S, n) ==
    IF n = 0 THEN {<<>>}
    ELSE SeqsUpTo(S, n - 1)
         \cup { Append(q, x) : q \in { r \in SeqsUpTo(S, n - 1) : Len(r) = n - 1 },
                               x \in S }

Punctuation == {".", ",", "!", "?", ";", ":"}

EndsWithPunctuation(word_text) ==
    Len(word_text) > 0 /\ word_text[Len(word_text)] \in Punctuation

\* ------------------------------------------------- timed-word inputs
RECURSIVE WordLists(_, _)
\* the timed-word lists of n words that start at time t0: sorted by start,
\* end >= start, and end[k] <= start[k+1]
WordLists(n, t0) ==
    IF n = 0 THEN {<<>>}
    ELSE UNION { UNION { { <<[text |-> tx, start |-> t0 + g, end |-> t0 + g + d]>> \o rest :
                             rest \in WordLists(n - 1, t0 + g + d) } :
                         tx \in WordTexts, d \in WordDurations } :
                 g \in WordGaps }

TimedWordInputs == UNION { WordLists(n, 0) : n \in 0..MaxLen }

\* ------------------------------------------------------------- idle parts
\* Python's "not yet looked at" for ai_images_count
Unlisted == 0 - 1

\* compose_final_video is not running
ComposeIdle ==
    /\ scenes = <<>>
    /\ scene_idx = 1
    /\ video_clips = <<>>
    /\ ai_image_index = 0
    /\ error_occurred = FALSE
    /\ timeline = <<>>
    /\ cpc = "idle"
    /\ result = "pending"
    /\ hook_file = "unknown"
    /\ product_image_file = "unknown"
    /\ product_video_file = "unknown"
    /\ ai_images_count = Unlisted
    /\ stock_videos_map = [n \in 1..MaxScenes |-> "unknown"]

\* group_words_into_captions is not running
GroupIdle ==
    /\ timed_words = <<>>
    /\ max_words_per_caption = 1
    /\ max_duration_per_caption = 1
    /\ i = 1
    /\ grouped_captions = <<>>
    /\ current_group_words = <<>>
    /\ current_start_time = None
    /\ last_word_end_time = None
    /\ gpc = "idle"

\* start_time_ns = -1.0: no block is open
NoStart == 0 - 1

\* create_subtitle is not running
SubtitleIdle ==
    /\ subs = <<>>
    /\ script_lines = <<>>
    /\ word_idx = 0
    /\ script_line_idx = 0
    /\ processed_words = 0
    /\ start_time_ns = NoStart
    /\ current_sub_line = <<>>
    /\ sub_index = 0
    /\ sub_items = <<>>
    /\ spc = "idle"
    /\ subtitle_success = "pending"

\* run_pipeline is not running
PipelineIdle ==
    /\ ppc = "idle"
    /\ running = "none"
    /\ stage_log = <<>>
    /\ final_video = "absent"
    /\ returned = "pending"

\* load_captions is not running
LoadIdle ==
    /\ captions_json = <<>>
    /\ load_result = "idle"

\* the five functions above are not running
CoreIdle ==
    /\ GroupIdle
    /\ ComposeIdle
    /\ SubtitleIdle
    /\ PipelineIdle
    /\ LoadIdle

\* the bulk mode loop is not running
BulkIdle ==
    /\ csv_lines = <<>>
    /\ total = 0
    /\ bulk_i = 0
    /\ results = <<>>
    /\ bpc = "idle"
    /\ slept = 0
    /\ active = 0

\* no stock video search has asked for an API key yet (module load, lines
\* 28-29 of stock_video_finder.py)
KeysIdle ==
    /\ pexels_api_keys = <<>>
    /\ pixabay_api_keys = <<>>
    /\ pexels_key_index = 0
    /\ pixabay_key_index = 0
    /\ key_calls = <<>>

\* format_time_srt is not running
FmtIdle ==
    /\ fmt_ticks = [ms |-> 0, sub |-> 0, negative |-> FALSE]
    /\ fmt_text = <<>>
    /\ fpc = "idle"

\* group_words_into_captions has not been called a first or a second time
RegroupIdle ==
    /\ pass = 0
    /\ first_blocks = <<>>

\* save_video has not been called; nothing is at video_path
SaveIdle ==
    /\ video_file = "absent"
    /\ save_log = <<>>

\* neither extract_ai_image_prompts nor generate_images has run; the
\* images directory is empty
ImagesIdle ==
    /\ prompts = <<>>
    /\ prompt_i = 1
    /\ images_dir = <<>>
    /\ generated_image_paths = <<>>
    /\ ipc = "idle"

\* neither azure_tts_v1 nor azure_tts_v2 is running
TtsIdle ==
    /\ tts_version = "none"
    /\ tts_i = 0
    /\ attempts = <<>>
    /\ tts_result = "pending"
    /\ tpc = "idle"

\* the functions outside the five above are idle, except the one named
ToolsIdleBut(c) ==
    /\ (IF c = "bulk" THEN TRUE ELSE BulkIdle)
    /\ (IF c = "keys" THEN TRUE ELSE KeysIdle)
    /\ (IF c = "fmt" THEN TRUE ELSE FmtIdle)
    /\ (IF c = "regroup" THEN TRUE ELSE RegroupIdle)
    /\ (IF c = "save" THEN TRUE ELSE SaveIdle)
    /\ (IF c = "images" THEN TRUE ELSE ImagesIdle)
    /\ (IF c = "tts" THEN TRUE ELSE TtsIdle)

\* ------------------------------------------- group_words_into_captions
GroupInit ==
    /\ ToolsIdleBut("none")
    /\ ComposeIdle
    /\ SubtitleIdle
    /\ PipelineIdle
    /\ LoadIdle
    /\ timed_words \in TimedWordInputs
    /\ max_words_per_caption \in 1..MaxCapWords
    /\ max_duration_per_caption \in 1..MaxCapDur
    /\ i = 1
    /\ grouped_captions = <<>>
    /\ current_group_words = <<>>
    /\ current_start_time = IF timed_words = <<>> THEN None ELSE timed_words[1].start
    /\ last_word_end_time = IF timed_words = <<>> THEN None ELSE timed_words[1].end
    /\ gpc = "loop"

\* if not timed_words: return []
GroupReturnEmpty ==
    /\ gpc = "loop"
    /\ timed_words = <<>>
    /\ gpc' = "done"
    /\ UNCHANGED <<timed_words, max_words_per_caption, max_duration_per_caption,
                   i, grouped_captions, current_group_words, current_start_time,
                   last_word_end_time>>
    /\ UNCHANGED outsideGroup

\* the start of the open group as the loop body sees it after lines 72-82
StartOfGroup(word_start) ==
    IF current_group_words = <<>> \/ current_start_time = None
    THEN word_start ELSE current_start_time

ExceedsWordLimit == Len(current_group_words) >= max_words_per_caption

ExceedsDuration(word_info) ==
    (word_info.end - StartOfGroup(word_info.start)) > max_duration_per_caption

IsLastWord == i = Len(timed_words)

ShouldFinalize(word_info) ==
    /\ current_group_words # <<>>
    /\ \/ ExceedsWordLimit
       \/ ExceedsDuration(word_info)
       \/ EndsWithPunctuation(word_info.text)
       \/ IsLastWord

\* line 99, mutated: the current word never joins the group being finalized
IncludeCurrentWord_Never(word_info) == FALSE

\* line 99, mutated: the last word is not force-included
IncludeCurrentWord_NoLastWord(word_info) ==
    ~(ExceedsWordLimit \/ ExceedsDuration(word_info))

\* line 99: the current word joins the group being finalized
IncludeCurrentWord(word_info) ==
    \/ ~(ExceedsWordLimit \/ ExceedsDuration(word_info))
    \/ IsLastWord

\* line 119, mutated: only the word limit moves the word to the next group
StartsNextGroup_WordLimitOnly(word_info) ==
    /\ ~IsLastWord
    /\ ExceedsWordLimit

\* line 119: the current word starts the next group
StartsNextGroup(word_info) ==
    /\ ~IsLastWord
    /\ (ExceedsWordLimit \/ ExceedsDuration(word_info))

\* lines 96-101: the words of the group being finalized
WordsToFinalize(word_info) ==
    IF IncludeCurrentWord(word_info)
    THEN Append(current_group_words, word_info.text)
    ELSE current_group_words

\* lines 97-102, mutated: the end time is not moved to the included word
FinalGroupEndTime_Stale(word_info) == last_word_end_time

\* lines 97-102: the end time of the group being finalized
FinalGroupEndTime(word_info) ==
    IF IncludeCurrentWord(word_info)
    THEN word_info.end ELSE last_word_end_time

\* one iteration of the for loop, lines 66-128
GroupWord ==
    /\ gpc = "loop"
    /\ timed_words # <<>>
    /\ i <= Len(timed_words)
    /\ LET word_info == timed_words[i]
           word_text == word_info.text
           word_start == word_info.start
           word_end == word_info.end
       IN IF ShouldFinalize(word_info)
          THEN /\ grouped_captions' = Append(grouped_captions,
                      [start |-> StartOfGroup(word_start),
                       end |-> FinalGroupEndTime(word_info),
                       text |-> Join(WordsToFinalize(word_info))])
               /\ IF StartsNextGroup(word_info)
                  THEN /\ current_group_words' = <<word_text>>
                       /\ current_start_time' = word_start
                       /\ last_word_end_time' = word_end
                  ELSE /\ current_group_words' = <<>>
                       /\ current_start_time' = None
                       /\ last_word_end_time' = None
          ELSE /\ current_group_words' = Append(current_group_words, word_text)
               /\ current_start_time' = StartOfGroup(word_start)
               /\ last_word_end_time' = word_end
               /\ UNCHANGED grouped_captions
    /\ i' = i + 1
    /\ UNCHANGED <<timed_words, max_words_per_caption, max_duration_per_caption, gpc>>
    /\ UNCHANGED outsideGroup

\* after the loop, lines 132-139: the safeguard append, then return
GroupFinish ==
    /\ gpc = "loop"
    /\ timed_words # <<>>
    /\ i > Len(timed_words)
    /\ grouped_captions' =
          IF /\ current_group_words # <<>>
             /\ current_start_time # None
             /\ last_word_end_time # None
          THEN Append(grouped_captions,
                      [start |-> current_start_time,
                       end |-> last_word_end_time,
                       text |-> Join(current_group_words)])
          ELSE grouped_captions
    /\ gpc' = "done"
    /\ UNCHANGED <<timed_words, max_words_per_caption, max_duration_per_caption,
                   i, current_group_words, current_start_time, last_word_end_time>>
    /\ UNCHANGED outsideGroup

GroupNext == GroupReturnEmpty \/ GroupWord \/ GroupFinish

SpecGroup == GroupInit /\ [][GroupNext]_vars

\* ------------ group_words_into_captions called again on its own blocks
\* the timed-word lists without a pause between the words
RegroupInputs ==
    { w \in TimedWordInputs :
        \A k \in 1..Len(w) : w[k].start = (IF k = 1 THEN 0 ELSE w[k - 1].end) }

RECURSIVE BlockTexts(_)
\* the words of the blocks: each block's text split on spaces, in block order
BlockTexts(blocks) ==
    IF blocks = <<>> THEN <<>>
    ELSE Split(blocks[1].text) \o BlockTexts(Tail(blocks))

\* the blocks as a timed-word list again: the k-th word of the blocks with
\* the times the k-th word was given with
Flatten(blocks, words) ==
    [k \in 1..Len(BlockTexts(blocks)) |->
        [text |-> BlockTexts(blocks)[k], start |-> words[k].start, end |-> words[k].end]]

RegroupInit ==
    /\ ComposeIdle
    /\ SubtitleIdle
    /\ PipelineIdle
    /\ LoadIdle
    /\ ToolsIdleBut("regroup")
    /\ timed_words \in RegroupInputs
    /\ max_words_per_caption \in 1..MaxCapWords
    /\ max_duration_per_caption \in 1..MaxCapDur
    /\ i = 1
    /\ grouped_captions = <<>>
    /\ current_group_words = <<>>
    /\ current_start_time = IF timed_words = <<>> THEN None ELSE timed_words[1].start
    /\ last_word_end_time = IF timed_words = <<>> THEN None ELSE timed_words[1].end
    /\ gpc = "loop"
    /\ pass = 1
    /\ first_blocks = <<>>

\* the first call has returned: its blocks are flattened and the function is
\* called on them with the same limits (lines 56-64 once more)
Regroup ==
    /\ pass = 1
    /\ gpc = "done"
    /\ first_blocks' = grouped_captions
    /\ pass' = 2
    /\ timed_words' = Flatten(grouped_captions, timed_words)
    /\ i' = 1
    /\ grouped_captions' = <<>>
    /\ current_group_words' = <<>>
    /\ current_start_time' = IF timed_words' = <<>> THEN None ELSE timed_words'[1].start
    /\ last_word_end_time' = IF timed_words' = <<>> THEN None ELSE timed_words'[1].end
    /\ gpc' = "loop"
    /\ UNCHANGED <<max_words_per_caption, max_duration_per_caption>>
    /\ UNCHANGED outsideRegroup

RegroupNext == GroupReturnEmpty \/ GroupWord \/ GroupFinish \/ Regroup

SpecRegroup == RegroupInit /\ [][RegroupNext]_vars

\* --------------- group_words_into_captions on words whose text is blank
\* texts a word can carry: get_timed_words_from_submaker strips the text of
\* a word boundary (so "" occurs), a captions JSON file holds any string
BlankTexts == {<<"a">>, <<>>, <<" ">>}

RECURSIVE BlankWordLists(_, _)
\* timed-word lists of n words of one time unit each, starting at t0
BlankWordLists(n, t0) ==
    IF n = 0 THEN {<<>>}
    ELSE UNION { { <<[text |-> tx, start |-> t0 + g, end |-> t0 + g + 1]>> \o rest :
                     rest \in BlankWordLists(n - 1, t0 + g + 1), tx \in BlankTexts } :
                 g \in WordGaps }

BlankWordInputs == UNION { BlankWordLists(n, 0) : n \in 0..MaxLen }

BlankInit ==
    /\ ToolsIdleBut("none")
    /\ ComposeIdle
    /\ SubtitleIdle
    /\ PipelineIdle
    /\ LoadIdle
    /\ timed_words \in BlankWordInputs
    /\ max_words_per_caption \in 1..MaxCapWords
    /\ max_duration_per_caption \in 1..MaxCapDur
    /\ i = 1
    /\ grouped_captions = <<>>
    /\ current_group_words = <<>>
    /\ current_start_time = IF timed_words = <<>> THEN None ELSE timed_words[1].start
    /\ last_word_end_time = IF timed_words = <<>> THEN None ELSE timed_words[1].end
    /\ gpc = "loop"

SpecBlank == BlankInit /\ [][GroupNext]_vars

\* ------------------------------- load_captions, then the caption grouper
\* a word of the captions JSON file, by kind: well formed, with its end
\* before its start, or lacking one of the three keys
WordKinds == {"ok", "reversed", "no_start", "no_end", "no_text"}

\* the k-th word of the file: one time unit long, one time unit of silence
CaptionWord(kind, k) ==
    [keys |-> CASE kind = "no_start" -> {"end", "text"}
                [] kind = "no_end" -> {"start", "text"}
                [] kind = "no_text" -> {"start", "end"}
                [] OTHER -> {"start", "end", "text"},
     text |-> <<"a">>,
     start |-> IF kind = "reversed" THEN 2 * k - 1 ELSE 2 * k - 2,
     end |-> IF kind = "reversed" THEN 2 * k - 2 ELSE 2 * k - 1]

\* the lists of at most MaxLen words a captions JSON file can hold
CaptionFiles ==
    { [k \in 1..Len(kinds) |-> CaptionWord(kinds[k], k)] :
        kinds \in SeqsUpTo(WordKinds, MaxLen) }

\* line 32: all(k in word_info for k in ["start", "end", "text"])
HasAllKeys(word_info) == {"start", "end", "text"} \subseteq word_info.keys

CaptionsInit ==
    /\ ToolsIdleBut("none")
    /\ ComposeIdle
    /\ SubtitleIdle
    /\ PipelineIdle
    /\ captions_json \in CaptionFiles
    /\ load_result = "pending"
    /\ timed_words = <<>>
    /\ max_words_per_caption \in 1..MaxCapWords
    /\ max_duration_per_caption \in 1..MaxCapDur
    /\ i = 1
    /\ grouped_captions = <<>>
    /\ current_group_words = <<>>
    /\ current_start_time = None
    /\ last_word_end_time = None
    /\ gpc = "load"

\* load_captions (lines 22-48) as add_captions_to_video calls it, lines
\* 159-168: the file cannot be opened or parsed, or a word lacks a key
\* (both raise), or the list is handed to group_words_into_captions
\* (lines 56-64), unless it is empty
LoadCaptions ==
    /\ gpc = "load"
    /\ \E file_ok \in BOOLEAN :
          IF ~file_ok
          THEN /\ load_result' = "FileError"
               /\ gpc' = "done"
               /\ UNCHANGED <<timed_words, current_start_time, last_word_end_time>>
          ELSE IF \E k \in DOMAIN captions_json : ~HasAllKeys(captions_json[k])
          THEN /\ load_result' = "ValueError"
               /\ gpc' = "done"
               /\ UNCHANGED <<timed_words, current_start_time, last_word_end_time>>
          ELSE /\ load_result' = "loaded"
               /\ timed_words' = [k \in DOMAIN captions_json |->
                                    [text |-> captions_json[k].text,
                                     start |-> captions_json[k].start,
                                     end |-> captions_json[k].end]]
               /\ gpc' = IF captions_json = <<>> THEN "done" ELSE "loop"
               /\ current_start_time' =
                      IF captions_json = <<>> THEN None ELSE captions_json[1].start
               /\ last_word_end_time' =
                      IF captions_json = <<>> THEN None ELSE captions_json[1].end
    /\ UNCHANGED <<captions_json, max_words_per_caption, max_duration_per_caption,
                   i, grouped_captions, current_group_words>>
    /\ UNCHANGED outsideLoad

CaptionsNext == LoadCaptions \/ GroupWord \/ GroupFinish

SpecCaptions == CaptionsInit /\ [][CaptionsNext]_vars

\* ------------------------------------------------- compose_final_video
\* MAX_HOOK_DURATION, in seconds
MAX_HOOK_DURATION == 4

\* the five known visual types, one unknown value, and "" for a missing key
VisualTypes == {"hook", "ai_image", "stock_video", "product_shot", "product_video"}
VisualTypeValues == VisualTypes \cup {"slideshow", ""}
\* duration_seconds of a scene, in seconds: shorter than every video file,
\* and as long as the longest one (longer than MAX_HOOK_DURATION)
SceneDurations == {1, 5}

\* scene_number per list position: ascending, descending, or ascending
\* with one number missing (0 stands for a missing or zero scene_number)
SceneNumberings(n) ==
    { [k \in 1..n |-> k], [k \in 1..n |-> n + 1 - k] }
    \cup { [k \in 1..n |-> IF k = z THEN 0 ELSE k] : z \in 1..n }

\* the scenes lists a parsed script can hold (duration_seconds > 0 is
\* enforced by parse_gemini_response; the other keys are only warned about)
Scripts ==
    UNION { { [k \in 1..n |-> [scene_number |-> nums[k],
                               visual_type |-> types[k],
                               duration_seconds |-> durs[k]]] :
                nums \in SceneNumberings(n),
                types \in [1..n -> VisualTypeValues],
                durs \in [1..n -> SceneDurations] } :
            n \in 0..MaxScenes }

Min(a, b) == IF a <= b THEN a ELSE b

\* the numbers of images the directory may hold
PoolSizes == (0..MaxScenes) \cup {MaxPool}

\* --- file names of the images directory, and sorted() on them
DigitChar(d) ==
    CASE d = 0 -> "0" [] d = 1 -> "1" [] d = 2 -> "2" [] d = 3 -> "3"
      [] d = 4 -> "4" [] d = 5 -> "5" [] d = 6 -> "6" [] d = 7 -> "7"
      [] d = 8 -> "8" [] d = 9 -> "9"

\* the code point of a character of a file name
Ord(c) ==
    CASE c = "." -> 46
      [] c = "0" -> 48 [] c = "1" -> 49 [] c = "2" -> 50 [] c = "3" -> 51
      [] c = "4" -> 52 [] c = "5" -> 53 [] c = "6" -> 54 [] c = "7" -> 55
      [] c = "8" -> 56 [] c = "9" -> 57
      [] c = "e" -> 101 [] c = "g" -> 103 [] c = "j" -> 106 [] c = "p" -> 112

RECURSIVE Digits(_)
\* str(n) for n >= 0
Digits(n) ==
    IF n < 10 THEN <<DigitChar(n)>>
    ELSE Digits(n \div 10) \o <<DigitChar(n % 10)>>

\* f"{n}.jpeg"
FileName(n) == Digits(n) \o <<".", "j", "p", "e", "g">>

RECURSIVE StrLess(_, _)
\* a < b on Python strings: by code point, a proper prefix first
StrLess(a, b) ==
    IF b = <<>> THEN FALSE
    ELSE IF a = <<>> THEN TRUE
    ELSE IF Ord(Head(a)) # Ord(Head(b)) THEN Ord(Head(a)) < Ord(Head(b))
    ELSE StrLess(Tail(a), Tail(b))

\* sorted(names), mutated: by the number in the stem
SortedFiles_Numeric(count) == [k \in 1..count |-> FileName(k)]

\* sorted(ai_images_dir.glob("*.jpeg")) for a directory holding
\* 1.jpeg .. count.jpeg: the names in string order
SortedFiles(count) ==
    LET names == { FileName(k) : k \in 1..count }
        rank(x) == Cardinality({ y \in names : StrLess(y, x) }) + 1
    IN [r \in 1..count |-> CHOOSE x \in names : rank(x) = r]

\* line 187: all([scene_number, visual_type, duration_seconds])
SceneIsComplete(scene) ==
    /\ scene.scene_number # 0
    /\ scene.visual_type # ""
    /\ scene.duration_seconds # 0

\* --- the clip a scene loads (scene_clip_raw): the duration of the file it
\* was cut from (0 for an image or a colour clip), how it was cut, and the
\* duration it has when it reaches line 276
NoAsset == 0

\* ImageClip(path).set_duration(d), ColorClip(.., duration=d)
StillClip(d) == [asset |-> NoAsset, fit |-> "none", loaded |-> d]

\* VideoFileClip(path).subclip(0, t_end)
Subclip(asset_duration, t_end) ==
    [asset |-> asset_duration, fit |-> "subclip", loaded |-> t_end]

\* VideoFileClip(path).loop(duration=d)
Loop(asset_duration, d) ==
    [asset |-> asset_duration, fit |-> "loop", loaded |-> d]

\* lines 233-237, mutated: the file is cut, never looped
FitVideo_NeverLooped(asset_duration, duration_seconds) ==
    Subclip(asset_duration, Min(asset_duration, duration_seconds))

\* lines 233-237 and 255-259: cut the file when it is long enough, else loop it
FitVideo(asset_duration, duration_seconds) ==
    IF asset_duration >= duration_seconds
    THEN Subclip(asset_duration, duration_seconds)
    ELSE Loop(asset_duration, duration_seconds)

\* lines 204-206: the hook file cut to target_duration
FitHook(actual_hook_duration, duration_seconds) ==
    Subclip(actual_hook_duration,
            Min(Min(duration_seconds, actual_hook_duration), MAX_HOOK_DURATION))

\* line 278, mutated: the duration of the loaded clip is kept
ForcedDuration_Kept(raw_duration, scene) == raw_duration

\* line 278: scene_clip_raw.set_duration(duration_seconds); the clip keeps
\* this duration through resize_clip_to_aspect (lines 99-117)
ForcedDuration(raw_duration, scene) == scene.duration_seconds

ComposeInit ==
    /\ ToolsIdleBut("none")
    /\ GroupIdle
    /\ SubtitleIdle
    /\ PipelineIdle
    /\ LoadIdle
    /\ scenes \in Scripts
    /\ scene_idx = 1
    /\ video_clips = <<>>
    /\ ai_image_index = 0
    /\ error_occurred = FALSE
    /\ timeline = <<>>
    /\ cpc = "start"
    /\ result = "pending"
    /\ hook_file = "unknown"
    /\ product_image_file = "unknown"
    /\ product_video_file = "unknown"
    /\ ai_images_count = Unlisted
    /\ stock_videos_map = [n \in 1..MaxScenes |-> "unknown"]

\* lines 164-177: no scenes, or the main audio cannot be loaded: return False
ComposeStart ==
    /\ cpc = "start"
    /\ \E audio_loads \in BOOLEAN :
          IF scenes = <<>> \/ ~audio_loads
          THEN cpc' = "done" /\ result' = "False"
          ELSE cpc' = "scenes" /\ result' = result
    /\ UNCHANGED <<scenes, scene_idx, video_clips, ai_image_index, error_occurred,
                   timeline, hook_file, product_image_file, product_video_file,
                   ai_images_count, stock_videos_map>>
    /\ UNCHANGED outsideCompose

InLoop == cpc = "scenes" /\ scene_idx <= Len(scenes)

\* the loop goes on to the next scene
NextScene ==
    /\ scene_idx' = scene_idx + 1
    /\ UNCHANGED <<scenes, timeline, cpc, result>>
    /\ UNCHANGED outsideCompose

\* lines 276-284: the loaded clip, or the black placeholder, gets the
\* scene's duration and joins video_clips
ClipAppended(kind, source, raw) ==
    /\ video_clips' = Append(video_clips,
          [index |-> scene_idx, kind |-> kind, source |-> source,
           asset |-> raw.asset, fit |-> raw.fit, loaded |-> raw.loaded,
           duration |-> ForcedDuration(raw.loaded, scenes[scene_idx])])
    /\ error_occurred' = error_occurred
    /\ NextScene

\* lines 272-273, mutated: no clip is made for the scene
Placeholder_NoClip ==
    /\ video_clips' = video_clips
    /\ error_occurred' = error_occurred
    /\ NextScene

\* lines 272-273: scene_clip_raw is None, a black ColorClip replaces it
Placeholder ==
    ClipAppended("placeholder", <<>>, StillClip(scenes[scene_idx].duration_seconds))

\* lines 286-294: an exception of the try block is caught; the red clip
\* with its TextClip joins video_clips, unless TextClip itself raises
\* (it needs the ImageMagick binary): then the exception leaves the function
ExceptHandler ==
    \E text_clip_built \in BOOLEAN :
        IF text_clip_built
        THEN /\ video_clips' = Append(video_clips,
                   [index |-> scene_idx, kind |-> "error", source |-> <<>>,
                    asset |-> NoAsset, fit |-> "none",
                    loaded |-> scenes[scene_idx].duration_seconds,
                    duration |-> scenes[scene_idx].duration_seconds])
             /\ error_occurred' = TRUE
             /\ NextScene
        ELSE /\ cpc' = "done"
             /\ result' = "raised"
             /\ UNCHANGED <<scenes, scene_idx, video_clips, error_occurred, timeline>>
             /\ UNCHANGED outsideCompose

\* lines 187-189: a scene lacking a number, a type or a duration is skipped
SceneSkipped ==
    /\ InLoop
    /\ ~SceneIsComplete(scenes[scene_idx])
    /\ UNCHANGED <<video_clips, ai_image_index, error_occurred, hook_file,
                   product_image_file, product_video_file, ai_images_count,
                   stock_videos_map>>
    /\ NextScene

\* lines 197-213
SceneHook ==
    /\ InLoop
    /\ SceneIsComplete(scenes[scene_idx])
    /\ scenes[scene_idx].visual_type = "hook"
    /\ \E is_file \in {"file", "missing"} :
          /\ hook_file \in {"unknown", is_file}
          /\ hook_file' = is_file
          /\ IF is_file = "file"
             THEN \E readable \in BOOLEAN, actual_hook_duration \in AssetDurations :
                     IF readable
                     THEN ClipAppended("media", <<"h", "o", "o", "k">>,
                              FitHook(actual_hook_duration,
                                      scenes[scene_idx].duration_seconds))
                     ELSE Placeholder
             ELSE Placeholder
    /\ UNCHANGED <<ai_image_index, product_image_file, product_video_file,
                   ai_images_count, stock_videos_map>>

\* lines 215-225
SceneAiImage ==
    /\ InLoop
    /\ SceneIsComplete(scenes[scene_idx])
    /\ scenes[scene_idx].visual_type = "ai_image"
    /\ \E count \in (PoolSizes \cup {ai_images_count}) \ {Unlisted} :
          /\ ai_images_count \in {Unlisted, count}
          /\ ai_images_count' = count
          /\ IF ai_image_index < count
             THEN \E readable \in BOOLEAN :
                     IF readable
                     THEN /\ ClipAppended("media",
                                 SortedFiles(count)[ai_image_index + 1],
                                 StillClip(scenes[scene_idx].duration_seconds))
                          /\ ai_image_index' = ai_image_index + 1
                     ELSE /\ ExceptHandler
                          /\ ai_image_index' = ai_image_index
             ELSE /\ Placeholder
                  /\ ai_image_index' = ai_image_index
    /\ UNCHANGED <<hook_file, product_image_file, product_video_file,
                   stock_videos_map>>

\* lines 227-240: stock_videos_map.get(scene_number, []) holds paths or not
SceneStockVideo ==
    /\ InLoop
    /\ SceneIsComplete(scenes[scene_idx])
    /\ scenes[scene_idx].visual_type = "stock_video"
    /\ LET scene_number == scenes[scene_idx].scene_number
       IN \E video_paths \in {"paths", "none"} :
             /\ stock_videos_map[scene_number] \in {"unknown", video_paths}
             /\ stock_videos_map' = [stock_videos_map EXCEPT ![scene_number] = video_paths]
             /\ IF video_paths = "paths"
                THEN \E readable \in BOOLEAN, asset_duration \in AssetDurations :
                        IF readable
                        THEN ClipAppended("media", <<"s", "t", "o", "c", "k">>,
                                 FitVideo(asset_duration,
                                          scenes[scene_idx].duration_seconds))
                        ELSE ExceptHandler
                ELSE Placeholder
    /\ UNCHANGED <<ai_image_index, hook_file, product_image_file,
                   product_video_file, ai_images_count>>

\* lines 242-247
SceneProductShot ==
    /\ InLoop
    /\ SceneIsComplete(scenes[scene_idx])
    /\ scenes[scene_idx].visual_type = "product_shot"
    /\ \E is_file \in {"file", "missing"} :
          /\ product_image_file \in {"unknown", is_file}
          /\ product_image_file' = is_file
          /\ IF is_file = "file"
             THEN \E readable \in BOOLEAN :
                     IF readable
                     THEN ClipAppended("media", <<"i", "m", "a", "g", "e">>,
                              StillClip(scenes[scene_idx].duration_seconds))
                     ELSE ExceptHandler
             ELSE Placeholder
    /\ UNCHANGED <<ai_image_index, hook_file, product_video_file, ai_images_count,
                   stock_videos_map>>

\* lines 249-266
SceneProductVideo ==
    /\ InLoop
    /\ SceneIsComplete(scenes[scene_idx])
    /\ scenes[scene_idx].visual_type = "product_video"
    /\ \E is_file \in {"file", "missing"} :
          /\ product_video_file \in {"unknown", is_file}
          /\ product_video_file' = is_file
          /\ IF is_file = "file"
             THEN \E readable \in BOOLEAN, asset_duration \in AssetDurations :
                     IF readable
                     THEN ClipAppended("media", <<"v", "i", "d", "e", "o">>,
                              FitVideo(asset_duration,
                                       scenes[scene_idx].duration_seconds))
                     ELSE Placeholder
             ELSE Placeholder
    /\ UNCHANGED <<ai_image_index, hook_file, product_image_file, ai_images_count,
                   stock_videos_map>>

\* lines 268-269
SceneUnknownType ==
    /\ InLoop
    /\ SceneIsComplete(scenes[scene_idx])
    /\ scenes[scene_idx].visual_type \notin VisualTypes
    /\ Placeholder
    /\ UNCHANGED <<ai_image_index, hook_file, product_image_file,
                   product_video_file, ai_images_count, stock_videos_map>>

\* lines 305-344: no clip: return False; else concatenate the clips in
\* list order and write the file (True), or fail doing so (False)
ComposeFinish ==
    /\ cpc = "scenes"
    /\ scene_idx > Len(scenes)
    /\ \E written \in BOOLEAN :
          IF video_clips # <<>> /\ written
          THEN timeline' = video_clips /\ result' = "True"
          ELSE timeline' = timeline /\ result' = "False"
    /\ cpc' = "done"
    /\ UNCHANGED <<scenes, scene_idx, video_clips, ai_image_index, error_occurred,
                   hook_file, product_image_file, product_video_file,
                   ai_images_count, stock_videos_map>>
    /\ UNCHANGED outsideCompose

ComposeNext ==
    \/ ComposeStart
    \/ SceneSkipped
    \/ SceneHook
    \/ SceneAiImage
    \/ SceneStockVideo
    \/ SceneProductShot
    \/ SceneProductVideo
    \/ SceneUnknownType
    \/ ComposeFinish

SpecCompose == ComposeInit /\ [][ComposeNext]_vars

\* ------------------------------------------------------ create_subtitle
\* line 244: the number of words after which a block is closed
BlockWordLimit == 8

\* the characters the regular expression of line 22 and the tests of
\* lines 238 and 242 look for (those of the alphabet used here)
SplitPunctuation == {",", ".", "!", "?"}

EndsWithSplitPunctuation(s) ==
    Len(s) > 0 /\ s[Len(s)] \in SplitPunctuation

RECURSIVE LStrip(_)
LStrip(s) == IF s # <<>> /\ Head(s) = " " THEN LStrip(Tail(s)) ELSE s

RECURSIVE RStrip(_)
RStrip(s) ==
    IF s # <<>> /\ s[Len(s)] = " " THEN RStrip(SubSeq(s, 1, Len(s) - 1)) ELSE s

\* s.strip()
Strip(s) == RStrip(LStrip(s))

\* _format_text: brackets become spaces, runs of spaces collapse
FormatText(text) ==
    Join(Split([k \in 1..Len(text) |->
                  IF text[k] \in {"(", ")", "[", "]", "{", "}"} THEN " " ELSE text[k]]))

RECURSIVE SplitPunctFrom(_, _, _)
\* split_string_by_punctuations scanning from position p with the part cur
\* being built: a part ends after a punctuation character and the spaces
\* that follow it; parts are stripped and empty parts dropped
SplitPunctFrom(t, p, cur) ==
    LET emit(part) == IF Strip(part) = <<>> THEN <<>> ELSE <<Strip(part)>>
    IN IF p > Len(t) THEN emit(cur)
       ELSE IF t[p] \in SplitPunctuation
            THEN emit(Append(cur, t[p])) \o SplitPunctFrom(t, p + 1, <<>>)
            ELSE SplitPunctFrom(t, p + 1, Append(cur, t[p]))

split_string_by_punctuations(t) ==
    IF t = <<>> THEN <<>> ELSE SplitPunctFrom(t, 1, <<>>)

\* --- inputs
\* longest reference text, in words
MaxTextWords == 3
\* longest free part of the timed-word stream
MaxSubs == 2

\* the words of a reference text: bare, punctuated, bracketed
TextWords == {<<"x">>, <<"y", ".">>, <<"(", "z", ")">>}
\* the raw texts of the word-boundary events: bare, punctuated, blank
SubTexts == {<<"a">>, <<"b", ",">>, <<" ">>}

TextInputs == { Join(ws) : ws \in SeqsUpTo(TextWords, MaxTextWords) }

\* a run of n bare words
BareRun(n) == [k \in 1..n |-> <<"a">>]

\* the texts of a stream: nothing, or a run of bare words one short of, or
\* equal to, BlockWordLimit, followed by at most MaxSubs words of any kind
SubsInputs ==
    { run \o tail : run \in {<<>>, BareRun(BlockWordLimit - 1), BareRun(BlockWordLimit)},
                    tail \in SeqsUpTo(SubTexts, MaxSubs) }

\* sub_maker.subs and sub_maker.offset: the k-th event spans one time unit
\* and is followed by a silence of one time unit
SubMakerOf(texts) ==
    [k \in 1..Len(texts) |->
        [text |-> texts[k], start |-> 2 * (k - 1), end |-> 2 * (k - 1) + 1]]

SubtitleInit ==
    /\ ToolsIdleBut("none")
    /\ GroupIdle
    /\ ComposeIdle
    /\ PipelineIdle
    /\ LoadIdle
    /\ \E texts \in SubsInputs : subs = SubMakerOf(texts)
    /\ \E text \in TextInputs :
          script_lines = split_string_by_punctuations(FormatText(text))
    /\ word_idx = 0
    /\ script_line_idx = 0
    /\ processed_words = 0
    /\ start_time_ns = NoStart
    /\ current_sub_line = <<>>
    /\ sub_index = 0
    /\ sub_items = <<>>
    /\ spc = "start"
    /\ subtitle_success = "pending"

\* lines 188-190 and 220-223: no word-boundary data, or no script line
SubtitleStart ==
    /\ spc = "start"
    /\ IF subs = <<>> \/ script_lines = <<>>
       THEN spc' = "done" /\ subtitle_success' = "False"
       ELSE spc' = "loop" /\ subtitle_success' = subtitle_success
    /\ UNCHANGED <<subs, script_lines, word_idx, script_line_idx, processed_words,
                   start_time_ns, current_sub_line, sub_index, sub_items>>
    /\ UNCHANGED outsideSubtitle

\* line 228: the condition of the while loop
SubtitleLoopGoesOn ==
    word_idx < Len(subs) /\ script_line_idx < Len(script_lines)

\* lines 242-247, mutated: the word count alone closes a block
FinalizeBlock_WordLimitOnly(word, current_script_line) ==
    processed_words + 1 >= BlockWordLimit

\* lines 242-247, with processed_words already counting the current word
FinalizeBlock(word, current_script_line) ==
    \/ EndsWithSplitPunctuation(word) /\ EndsWithSplitPunctuation(current_script_line)
    \/ processed_words + 1 >= BlockWordLimit
    \/ word_idx = Len(subs) - 1

\* the arguments formatter is called with (lines 194-214 render them)
SubItem(idx, start_time, end_time, sub_text) ==
    [idx |-> idx, start |-> start_time, end |-> end_time, text |-> sub_text]

\* one iteration of the while loop, lines 228-258
SubtitleWord ==
    /\ spc = "loop"
    /\ SubtitleLoopGoesOn
    /\ LET start_ns == subs[word_idx + 1].start
           end_ns == subs[word_idx + 1].end
           word == Strip(subs[word_idx + 1].text)
           current_script_line == Strip(script_lines[script_line_idx + 1])
           block_start == IF start_time_ns < 0 THEN start_ns ELSE start_time_ns
       IN IF word = <<>>
          THEN UNCHANGED <<script_line_idx, processed_words, start_time_ns,
                           current_sub_line, sub_index, sub_items>>
          ELSE IF FinalizeBlock(word, current_script_line)
               THEN /\ sub_index' = sub_index + 1
                    /\ sub_items' = Append(sub_items,
                           SubItem(sub_index + 1, block_start, end_ns,
                                   current_script_line))
                    /\ start_time_ns' = NoStart
                    /\ current_sub_line' = <<>>
                    /\ script_line_idx' = script_line_idx + 1
                    /\ processed_words' = 0
               ELSE /\ start_time_ns' = block_start
                    /\ current_sub_line' = current_sub_line \o <<" ">> \o word
                    /\ processed_words' = processed_words + 1
                    /\ UNCHANGED <<script_line_idx, sub_index, sub_items>>
    /\ word_idx' = word_idx + 1
    /\ UNCHANGED <<subs, script_lines, spc, subtitle_success>>
    /\ UNCHANGED outsideSubtitle

\* lines 260-264: the one script line appended after the loop when words
\* were left in current_sub_line and a script line is left
RemainingItems ==
    IF Strip(current_sub_line) # <<>> /\ script_line_idx < Len(script_lines)
    THEN <<SubItem(sub_index + 1, start_time_ns, subs[Len(subs)].end,
                   Strip(script_lines[script_line_idx + 1]))>>
    ELSE <<>>

\* after the loop, lines 260-292: the remaining line, then the file is
\* written and read back (True), or one of the two fails (False)
SubtitleFinish ==
    /\ spc = "loop"
    /\ ~SubtitleLoopGoesOn
    /\ sub_items' = sub_items \o RemainingItems
    /\ sub_index' = sub_index + Len(RemainingItems)
    /\ \E written_and_parsed \in BOOLEAN :
          subtitle_success' =
              IF sub_items' # <<>> /\ written_and_parsed THEN "True" ELSE "False"
    /\ spc' = "done"
    /\ UNCHANGED <<subs, script_lines, word_idx, script_line_idx, processed_words,
                   start_time_ns, current_sub_line>>
    /\ UNCHANGED outsideSubtitle

SubtitleNext == SubtitleStart \/ SubtitleWord \/ SubtitleFinish

SpecSubtitle == SubtitleInit /\ [][SubtitleNext]_vars

\* --------------------------------------------------------- run_pipeline
\* the stages of run_pipeline, in the order of the code (steps 1, 2, 3-4,
\* 5, 6, 8, 9)
Stages == {"hook", "script", "images", "stock", "audio", "compose", "captions"}

\* what is at final_video_with_captions_path when run_pipeline is called:
\* nothing, or the video of an earlier run of the same project
FinalVideoBefore == {"absent", "stale"}

\* control flow, mutated: a failed composition does not stop the run
NextStage_CompositionFailureIgnored(stage, success) ==
    CASE stage = "hook" -> "script"
      [] stage = "script" -> IF success THEN "images" ELSE "halt"
      [] stage = "images" -> "stock"
      [] stage = "stock" -> "audio"
      [] stage = "audio" -> IF success THEN "compose" ELSE "halt"
      [] stage = "compose" -> "captions"
      [] stage = "captions" -> "end"

\* control flow, mutated: the video is composed before the audio exists
NextStage_ComposeBeforeAudio(stage, success) ==
    CASE stage = "hook" -> "script"
      [] stage = "script" -> IF success THEN "images" ELSE "halt"
      [] stage = "images" -> "stock"
      [] stage = "stock" -> "compose"
      [] stage = "compose" -> IF success THEN "audio" ELSE "halt"
      [] stage = "audio" -> IF success THEN "captions" ELSE "halt"
      [] stage = "captions" -> "end"

\* control flow of run_pipeline: the stage that follows a stage that
\* returned, or "halt" for the early returns of lines 85-92, 145-147, 169-171
NextStage(stage, success) ==
    CASE stage = "hook" -> "script"
      [] stage = "script" -> IF success THEN "images" ELSE "halt"
      [] stage = "images" -> "stock"
      [] stage = "stock" -> "audio"
      [] stage = "audio" -> IF success THEN "compose" ELSE "halt"
      [] stage = "compose" -> IF success THEN "captions" ELSE "halt"
      [] stage = "captions" -> "end"

\* generate_audio_fr, lines 335-378: its return value, from the outcomes
\* of tts, create_subtitle and the saving of the timed-words JSON
generate_audio_fr(tts_ok, subtitle_ok, json_success) ==
    IF ~tts_ok THEN FALSE
    ELSE IF ~subtitle_ok THEN FALSE
    ELSE json_success

\* the first step of generate_audio_fr that failed
AudioOutcome(tts_ok, subtitle_ok, json_success) ==
    IF ~tts_ok THEN "tts_failed"
    ELSE IF ~subtitle_ok THEN "subtitle_failed"
    ELSE IF ~json_success THEN "json_failed"
    ELSE "ok"

\* what add_captions_to_video does: writes the captioned video; finds
\* nothing to overlay and copies the input video; fails before writing;
\* fails while writing, leaving a partial file; cannot find a file
OverlayOutcomes == {"captioned", "no_captions", "error", "error_partial",
                    "file_not_found"}

\* the copy of caption_overlay.py (lines 163, 171, 209, 244) is attempted
InnerCopyAttempted(overlay) == overlay \in {"no_captions", "error", "error_partial"}

\* add_captions_to_video raises: always, except when it wrote the
\* captioned video or copied the input video and returned
OverlayRaises(overlay, inner_copy) ==
    \/ overlay \in {"error", "error_partial", "file_not_found"}
    \/ overlay = "no_captions" /\ ~inner_copy

\* some copy of the uncaptioned video reached the final path: the one of
\* add_captions_to_video, or the one of run_pipeline, line 184
Copied(overlay, inner_copy, outer_copy) ==
    \/ InnerCopyAttempted(overlay) /\ inner_copy
    \/ OverlayRaises(overlay, inner_copy) /\ outer_copy

\* step 9, mutated: run_pipeline, line 184, does not copy
FinalAfterCaptions_NoOuterCopy(before, overlay, inner_copy, outer_copy) ==
    IF overlay = "captioned" THEN "captioned"
    ELSE IF InnerCopyAttempted(overlay) /\ inner_copy THEN "uncaptioned"
    ELSE IF overlay = "error_partial" THEN "partial"
    ELSE before

\* step 9, lines 173-187: the file at the final path after it
FinalAfterCaptions(before, overlay, inner_copy, outer_copy) ==
    IF overlay = "captioned" THEN "captioned"
    ELSE IF Copied(overlay, inner_copy, outer_copy) THEN "uncaptioned"
    ELSE IF overlay = "error_partial" THEN "partial"
    ELSE before

PipelineInit ==
    /\ ToolsIdleBut("none")
    /\ GroupIdle
    /\ ComposeIdle
    /\ SubtitleIdle
    /\ LoadIdle
    /\ ppc = "hook"
    /\ running = "none"
    /\ stage_log = <<>>
    /\ final_video \in FinalVideoBefore
    /\ returned = "pending"

\* a stage function is called
PipeCall ==
    /\ ppc \in Stages
    /\ running = "none"
    /\ running' = ppc
    /\ UNCHANGED <<ppc, stage_log, final_video, returned>>
    /\ UNCHANGED outsidePipeline

\* the running stage returns (or raises and is caught): it is logged, and
\* run_pipeline goes to the next stage or returns None
StageReturns(stage, outcome, success, copied) ==
    /\ ppc = stage
    /\ running = stage
    /\ running' = "none"
    /\ stage_log' = Append(stage_log,
          [stage |-> stage, outcome |-> outcome, success |-> success,
           copied |-> copied])
    /\ IF NextStage(stage, success) = "halt"
       THEN ppc' = "done" /\ returned' = "None"
       ELSE ppc' = NextStage(stage, success) /\ returned' = returned
    /\ UNCHANGED outsidePipeline

\* step 1, lines 62-74: no hook given, a description, or none
PipeHook ==
    /\ \E outcome \in {"no_hook", "described", "failed"} :
          StageReturns("hook", outcome, outcome # "failed", FALSE)
    /\ UNCHANGED final_video

\* step 2, lines 76-92
PipeScript ==
    /\ \E outcome \in {"ok", "failed", "empty_text"} :
          StageReturns("script", outcome, outcome = "ok", FALSE)
    /\ UNCHANGED final_video

\* steps 3 and 4, lines 103-122: no prompt, images generated, or an
\* exception caught at line 118
PipeImages ==
    /\ \E outcome \in {"skipped", "generated", "raised"} :
          StageReturns("images", outcome, outcome # "raised", FALSE)
    /\ UNCHANGED final_video

\* step 5, lines 124-134
PipeStock ==
    /\ \E outcome \in {"found", "raised"} :
          StageReturns("stock", outcome, outcome # "raised", FALSE)
    /\ UNCHANGED final_video

\* step 6, lines 136-147
PipeAudio ==
    /\ \E tts_ok \in BOOLEAN, subtitle_ok \in BOOLEAN, json_success \in BOOLEAN :
          StageReturns("audio", AudioOutcome(tts_ok, subtitle_ok, json_success),
                       generate_audio_fr(tts_ok, subtitle_ok, json_success), FALSE)
    /\ UNCHANGED final_video

\* step 8, lines 156-171: compose_final_video returns True or False, or
\* raises, and then nothing catches the exception in run_pipeline
PipeCompose ==
    /\ ppc = "compose"
    /\ running = "compose"
    /\ \E composition \in {"True", "False", "raised"} :
          IF composition = "raised"
          THEN /\ running' = "none"
               /\ stage_log' = Append(stage_log,
                     [stage |-> "compose", outcome |-> composition,
                      success |-> FALSE, copied |-> FALSE])
               /\ ppc' = "done"
               /\ returned' = "raised"
               /\ UNCHANGED outsidePipeline
          ELSE StageReturns("compose", composition, composition = "True", FALSE)
    /\ UNCHANGED final_video

\* step 9, lines 173-187 (captions_json_path is a Path, hence true)
PipeCaptions ==
    \E overlay \in OverlayOutcomes, inner_copy \in BOOLEAN, outer_copy \in BOOLEAN :
        /\ StageReturns("captions", overlay, overlay = "captioned",
                        Copied(overlay, inner_copy, outer_copy))
        /\ final_video' =
               FinalAfterCaptions(final_video, overlay, inner_copy, outer_copy)

\* lines 197-208: the path if a file is there, else None
PipeEnd ==
    /\ ppc = "end"
    /\ ppc' = "done"
    /\ returned' = IF final_video # "absent" THEN "path" ELSE "None"
    /\ UNCHANGED <<running, stage_log, final_video>>
    /\ UNCHANGED outsidePipeline

PipelineNext ==
    \/ PipeCall
    \/ PipeHook
    \/ PipeScript
    \/ PipeImages
    \/ PipeStock
    \/ PipeAudio
    \/ PipeCompose
    \/ PipeCaptions
    \/ PipeEnd

SpecPipeline == PipelineInit /\ [][PipelineNext]_vars

\* ------------------------------------- bulk mode of streamlit_app.py
\* a line of the uploaded CSV file after the header: a row, or a blank line
\* (csv.DictReader skips blank lines, the line count of line 201 does not)
CsvLineKinds == {"row", "blank"}

CsvFiles == SeqsUpTo(CsvLineKinds, MaxCsvLines)

\* the rows csv.DictReader yields
Rows(lines) == SelectSeq(lines, LAMBDA l : l = "row")

\* what one call of run_pipeline does: returns the final path, returns None
\* (a fatal stage, or no file at the final path), or raises
RunOutcomes == {"path", "None", "raised"}

\* time.sleep(60)
PauseSeconds == 60

\* line 223, mutated: compares with the line count less two
PauseNeeded_ButLastTwo(idx, line_total) == idx < line_total - 2

\* line 223: if i < total - 1
PauseNeeded(idx, line_total) == idx < line_total - 1

\* lines 216 and 219: the entry appended to results
ResultEntry(res) ==
    IF res = "raised"
    THEN [status |-> "Erreur", video |-> "None"]
    ELSE [status |-> "OK", video |-> IF res = "path" THEN "path" ELSE "None"]

\* lines 192-203: the file is saved, its lines are counted, the loop begins
BulkInit ==
    /\ CoreIdle
    /\ ToolsIdleBut("bulk")
    /\ csv_lines \in CsvFiles
    /\ total = (1 + Len(csv_lines)) - 1
    /\ bulk_i = 0
    /\ results = <<>>
    /\ bpc = "loop"
    /\ slept = 0
    /\ active = 0

\* lines 204-215: the next row is read and run_pipeline is called
BulkCall ==
    /\ bpc = "loop"
    /\ bulk_i < Len(Rows(csv_lines))
    /\ bpc' = "running"
    /\ active' = active + 1
    /\ UNCHANGED <<csv_lines, total, bulk_i, results, slept>>
    /\ UNCHANGED outsideBulk

\* lines 216-224: run_pipeline returns or raises, the result is recorded,
\* and the loop decides whether to pause
BulkReturn ==
    /\ bpc = "running"
    /\ \E res \in RunOutcomes : results' = Append(results, ResultEntry(res))
    /\ active' = active - 1
    /\ slept' = 0
    /\ IF PauseNeeded(bulk_i, total)
       THEN /\ bpc' = "pause"
            /\ UNCHANGED bulk_i
       ELSE /\ bpc' = "loop"
            /\ bulk_i' = bulk_i + 1
    /\ UNCHANGED <<csv_lines, total>>
    /\ UNCHANGED outsideBulk

\* line 225: time.sleep(60) returns, the loop goes to the next row
BulkSleep ==
    /\ bpc = "pause"
    /\ slept' = slept + PauseSeconds
    /\ bulk_i' = bulk_i + 1
    /\ bpc' = "loop"
    /\ UNCHANGED <<csv_lines, total, results, active>>
    /\ UNCHANGED outsideBulk

\* lines 226-228: the reader is exhausted, the summary is shown
BulkFinish ==
    /\ bpc = "loop"
    /\ bulk_i >= Len(Rows(csv_lines))
    /\ bpc' = "done"
    /\ UNCHANGED <<csv_lines, total, bulk_i, results, slept, active>>
    /\ UNCHANGED outsideBulk

BulkNext == BulkCall \/ BulkReturn \/ BulkSleep \/ BulkFinish

SpecBulk == BulkInit /\ [][BulkNext]_vars

\* ----------------------------- get_rotating_api_key (stock_video_finder)
\* a list of n distinct keys as my_config.json holds it (the keys are
\* numbered in some order of their own, here from n - 1 down to 0)
KeyList(n) == [k \in 1..n |-> n - k]

KeyLists == { KeyList(n) : n \in 0..MaxKeys }

\* lines 39 and 43, mutated: the index is not advanced
NextKeyIndex_Stuck(api_keys, idx) == idx

\* lines 39 and 43: (idx + 1) % len(api_keys)
NextKeyIndex(api_keys, idx) == (idx + 1) % Len(api_keys)

\* lines 40 and 44: api_keys[idx] (Python counts from 0)
KeyAt(api_keys, idx) == api_keys[idx + 1]

\* the module globals start at 0; load_config caches my_config.json, so the
\* two lists stay what they are
KeysInit ==
    /\ CoreIdle
    /\ ToolsIdleBut("keys")
    /\ pexels_api_keys \in KeyLists
    /\ pixabay_api_keys \in KeyLists
    /\ pexels_key_index = 0
    /\ pixabay_key_index = 0
    /\ key_calls = <<>>

\* search_videos_pexels, lines 62-63: get_rotating_api_key(api_keys, "pexels")
KeyCallPexels ==
    /\ Len(key_calls) < MaxKeyCalls
    /\ IF pexels_api_keys = <<>>
       THEN /\ key_calls' = Append(key_calls,
                   [key_type |-> "pexels", raised |-> TRUE, key |-> None])
            /\ UNCHANGED pexels_key_index
       ELSE /\ key_calls' = Append(key_calls,
                   [key_type |-> "pexels", raised |-> FALSE,
                    key |-> KeyAt(pexels_api_keys, pexels_key_index)])
            /\ pexels_key_index' = NextKeyIndex(pexels_api_keys, pexels_key_index)
    /\ UNCHANGED <<pexels_api_keys, pixabay_api_keys, pixabay_key_index>>
    /\ UNCHANGED outsideKeys

\* search_videos_pixabay, lines 126-127: get_rotating_api_key(api_keys, "pixabay")
KeyCallPixabay ==
    /\ Len(key_calls) < MaxKeyCalls
    /\ IF pixabay_api_keys = <<>>
       THEN /\ key_calls' = Append(key_calls,
                   [key_type |-> "pixabay", raised |-> TRUE, key |-> None])
            /\ UNCHANGED pixabay_key_index
       ELSE /\ key_calls' = Append(key_calls,
                   [key_type |-> "pixabay", raised |-> FALSE,
                    key |-> KeyAt(pixabay_api_keys, pixabay_key_index)])
            /\ pixabay_key_index' = NextKeyIndex(pixabay_api_keys, pixabay_key_index)
    /\ UNCHANGED <<pexels_api_keys, pixabay_api_keys, pexels_key_index>>
    /\ UNCHANGED outsideKeys

KeysNext == KeyCallPexels \/ KeyCallPixabay

SpecKeys == KeysInit /\ [][KeysNext]_vars

\* ------------------------------------- format_time_srt (audio_generator_fr)
\* The formatter of create_subtitle passes ticks / 10_000_000.0, ticks being
\* a count of 100 ns units. A time is kept as its whole milliseconds ms, its
\* tenths of a millisecond sub, and its sign.
FmtBases == {0, 999, 1000, 59999, 3599999, 3725256, 86399999, 359999999}

FmtTimes ==
    { [ms |-> b + o, sub |-> u, negative |-> n] :
        b \in FmtBases, o \in 0..MaxFmtOffset, u \in {0, 5}, n \in BOOLEAN }

\* The whole-millisecond times t of FmtBases + 0..7 for which the binary64
\* product (t / 1000.0) * 1000 is below t (1.001 * 1000 is
\* 1000.9999999999999): line 148 multiplies doubles.
Binary64Short == {1001, 1003, 1005, 1007}

\* lines 147-148: if seconds < 0: seconds = 0; int(seconds * 1000)
TotalMilliseconds(t) ==
    IF t.negative THEN 0
    ELSE IF t.sub = 0 /\ t.ms \in Binary64Short THEN t.ms - 1
    ELSE t.ms

\* f"{n:02d}" and f"{n:03d}" for n >= 0
Pad2(n) == IF n < 10 THEN <<"0">> \o Digits(n) ELSE Digits(n)
Pad3(n) ==
    IF n < 10 THEN <<"0", "0">> \o Digits(n)
    ELSE IF n < 100 THEN <<"0">> \o Digits(n) ELSE Digits(n)

\* lines 149-152
format_time_srt(t) ==
    LET total_milliseconds == TotalMilliseconds(t)
        hours == total_milliseconds \div 3600000
        remainder == total_milliseconds % 3600000
        minutes == remainder \div 60000
        remainder2 == remainder % 60000
        seconds_part == remainder2 \div 1000
        milliseconds == remainder2 % 1000
    IN Pad2(hours) \o <<":">> \o Pad2(minutes) \o <<":">>
           \o Pad2(seconds_part) \o <<",">> \o Pad3(milliseconds)

FmtInit ==
    /\ CoreIdle
    /\ ToolsIdleBut("fmt")
    /\ fmt_ticks \in FmtTimes
    /\ fmt_text = <<>>
    /\ fpc = "call"

FormatTime ==
    /\ fpc = "call"
    /\ fmt_text' = format_time_srt(fmt_ticks)
    /\ fpc' = "done"
    /\ UNCHANGED fmt_ticks
    /\ UNCHANGED outsideFmt

FmtNext == FormatTime

SpecFmt == FmtInit /\ [][FmtNext]_vars

\* ------------------------------------------- save_video (stock_video_finder)
\* what is at video_path: nothing; a file of at most 1024 bytes or of more,
\* cut off by a failed download; the whole video, of at most 1024 bytes or
\* of more
FileStates == {"absent", "partial_small", "partial_big", "whole_small", "whole_big"}

\* lines 192 and 208: video_path.exists() and video_path.stat().st_size > 1024
ExistsWithSize(file) == file \in {"partial_big", "whole_big"}

\* how requests.get and the chunk loop of lines 202-206 end:
\*   "http_error"  raise_for_status (or the connection) fails before open()
\*   "cut_small" / "cut_big"  iter_content raises a RequestException after
\*                 at most / more than 1024 bytes were written
\*   "disk_error"  f.write raises OSError after some bytes were written
\*   "whole_small" / "whole_big"  every chunk is written
DownloadOutcomes ==
    {"http_error", "cut_small", "cut_big", "disk_error", "whole_small", "whole_big"}

\* the file the with-block of lines 202-206 leaves (open(..., "wb") truncates)
FileWritten(file, outcome) ==
    CASE outcome = "http_error" -> file
      [] outcome = "cut_small" -> "partial_small"
      [] outcome = "cut_big" -> "partial_big"
      [] outcome = "disk_error" -> "partial_small"
      [] outcome = "whole_small" -> "whole_small"
      [] outcome = "whole_big" -> "whole_big"

\* lines 208-239: what save_video leaves at video_path after the download
FileAfterDownload(file, outcome) ==
    CASE outcome \in {"http_error", "cut_small", "cut_big"} ->
            \* except requests.exceptions.RequestException: log, return ""
            FileWritten(file, outcome)
      [] outcome = "disk_error" ->
            \* except Exception: unlink
            "absent"
      [] outcome \in {"whole_small", "whole_big"} ->
            IF ExistsWithSize(FileWritten(file, outcome))
            THEN FileWritten(file, outcome)
            ELSE "absent"

\* the value returned after the download: the path, or ""
ReturnedAfterDownload(file, outcome) ==
    IF outcome \in {"whole_small", "whole_big"} /\ ExistsWithSize(FileWritten(file, outcome))
    THEN "path" ELSE ""

SaveInit ==
    /\ CoreIdle
    /\ ToolsIdleBut("save")
    /\ video_file = "absent"
    /\ save_log = <<>>

\* lines 192-196: the file is there with more than 1024 bytes: no download
SaveVideoExisting ==
    /\ Len(save_log) < MaxSaveCalls
    /\ ExistsWithSize(video_file)
    /\ save_log' = Append(save_log,
          [download |-> "none", returned |-> "path", file |-> video_file])
    /\ UNCHANGED video_file
    /\ UNCHANGED outsideSave

\* lines 198-239: the video is downloaded
SaveVideoDownload ==
    /\ Len(save_log) < MaxSaveCalls
    /\ ~ExistsWithSize(video_file)
    /\ \E outcome \in DownloadOutcomes :
          /\ video_file' = FileAfterDownload(video_file, outcome)
          /\ save_log' = Append(save_log,
                [download |-> outcome,
                 returned |-> ReturnedAfterDownload(video_file, outcome),
                 file |-> FileAfterDownload(video_file, outcome)])
    /\ UNCHANGED outsideSave

SaveNext == SaveVideoExisting \/ SaveVideoDownload

SpecSave == SaveInit /\ [][SaveNext]_vars

\* ------------------------------------- generate_images (image_generator)
\* The images directory is a function from the numbers n of its files
\* n.jpeg to what each file shows: the prompt it was generated from.

\* sorted(output_dir.glob("*.jpeg"))[-1].stem as a number: the file whose
\* name is last in string order (the directory is not empty)
LastSortedNumber(dir) ==
    CHOOSE n \in DOMAIN dir :
        \A o \in DOMAIN dir : o = n \/ StrLess(FileName(o), FileName(n))

\* lines 107-115: next_number
NextNumber(dir) ==
    IF DOMAIN dir = {} THEN 1 ELSE LastSortedNumber(dir) + 1

\* lines 117-120: the image is written to f"{next_number}.jpeg"
WriteImage(dir, n, image) ==
    [o \in (DOMAIN dir) \cup {n} |-> IF o = n THEN image ELSE dir[o]]

\* a prompts file of n prompts, each its own text
PromptText(k) == <<"d">> \o Digits(k)

PromptLists == { [k \in 1..n |-> PromptText(k)] : n \in 0..MaxPrompts }

ImagesInit ==
    /\ CoreIdle
    /\ ToolsIdleBut("images")
    /\ prompts \in PromptLists
    /\ prompt_i = 1
    /\ images_dir = <<>>
    /\ generated_image_paths = <<>>
    /\ ipc = "generate"

\* one iteration of the loop of lines 60-128: the request and the download
\* succeed and the image is saved, or the prompt is skipped (empty text) or
\* fails (request error, no image data) and nothing is written
GenerateImage ==
    /\ ipc = "generate"
    /\ prompt_i <= Len(prompts)
    /\ \E generated \in BOOLEAN :
          IF prompts[prompt_i] # <<>> /\ generated
          THEN /\ images_dir' = WriteImage(images_dir, NextNumber(images_dir),
                                           prompts[prompt_i])
               /\ generated_image_paths' =
                      Append(generated_image_paths, NextNumber(images_dir))
          ELSE UNCHANGED <<images_dir, generated_image_paths>>
    /\ prompt_i' = prompt_i + 1
    /\ UNCHANGED <<prompts, ipc>>
    /\ UNCHANGED outsideImages

\* lines 55-57 and 130: no prompt (left): generate_images returns
GenerateFinish ==
    /\ ipc = "generate"
    /\ prompt_i > Len(prompts)
    /\ ipc' = "done"
    /\ UNCHANGED <<prompts, prompt_i, images_dir, generated_image_paths>>
    /\ UNCHANGED outsideImages

ImagesNext == GenerateImage \/ GenerateFinish

SpecImages == ImagesInit /\ [][ImagesNext]_vars

\* ------------- one run: prompts extracted, images generated, video composed
\* visual_description of a scene: a text of its own, nothing, or blanks
Descriptions(k) == {PromptText(k), <<>>, <<" ">>}

\* scripts of ai_image scenes numbered 1..n
RunScripts ==
    UNION { { [k \in 1..n |-> [scene_number |-> k,
                               visual_type |-> "ai_image",
                               duration_seconds |-> 1,
                               visual_description |-> descs[k]]] :
                descs \in { d \in [1..n -> UNION { Descriptions(k) : k \in 1..n }] :
                              \A k \in 1..n : d[k] \in Descriptions(k) } } :
            n \in 0..MaxScenes }

\* the images a previous run of the project left in the directory
OldImage == <<"o", "l", "d">>

PreviousImages == { [k \in 1..n |-> OldImage] : n \in 0..MaxPrevious }

\* image_prompt_generator_gemini.py lines 25-51, then save_image_prompts
\* (line 64) keeps the prompt texts only
extract_ai_image_prompts(script) ==
    LET kept == SelectSeq(script, LAMBDA scene :
                    /\ scene.visual_type # "product_video"
                    /\ scene.visual_type = "ai_image"
                    /\ scene.visual_description # <<>>
                    /\ Strip(scene.visual_description) # <<>>)
    IN [k \in 1..Len(kept) |-> Strip(kept[k].visual_description)]

RunInit ==
    /\ GroupIdle
    /\ SubtitleIdle
    /\ PipelineIdle
    /\ LoadIdle
    /\ ToolsIdleBut("images")
    /\ scenes \in RunScripts
    /\ scene_idx = 1
    /\ video_clips = <<>>
    /\ ai_image_index = 0
    /\ error_occurred = FALSE
    /\ timeline = <<>>
    /\ cpc = "idle"
    /\ result = "pending"
    /\ hook_file = "unknown"
    /\ product_image_file = "unknown"
    /\ product_video_file = "unknown"
    /\ ai_images_count = Unlisted
    /\ stock_videos_map = [n \in 1..MaxScenes |-> "unknown"]
    /\ prompts = <<>>
    /\ prompt_i = 1
    /\ images_dir \in PreviousImages
    /\ generated_image_paths = <<>>
    /\ ipc = "extract"

\* main.py lines 103-122: the prompts are extracted and saved; without any
\* prompt generate_images is not called
RunExtract ==
    /\ ipc = "extract"
    /\ prompts' = extract_ai_image_prompts(scenes)
    /\ ipc' = IF prompts' = <<>> THEN "done" ELSE "generate"
    /\ UNCHANGED <<prompt_i, images_dir, generated_image_paths>>
    /\ UNCHANGED outsideImages

\* main.py lines 157-165: compose_final_video is called; the images
\* directory it will list is the one generate_images left
RunCompose ==
    /\ ipc = "done"
    /\ cpc = "idle"
    /\ cpc' = "start"
    /\ ai_images_count' = Cardinality(DOMAIN images_dir)
    /\ UNCHANGED <<scenes, scene_idx, video_clips, ai_image_index, error_occurred,
                   timeline, result, hook_file, product_image_file,
                   product_video_file, stock_videos_map>>
    /\ UNCHANGED outsideCompose

RunNext ==
    \/ RunExtract
    \/ GenerateImage
    \/ GenerateFinish
    \/ RunCompose
    \/ ComposeStart
    \/ SceneAiImage
    \/ ComposeFinish

SpecRun == RunInit /\ [][RunNext]_vars

\* --------------------- azure_tts_v1 and azure_tts_v2 (audio_generator_fr)
\* for i in range(3)
TtsTries == 3

\* how one synthesis attempt ends: a SubMaker with word boundaries, no
\* SubMaker, a SubMaker without word boundaries, an exception, or (SDK only)
\* a result whose reason is Canceled, or neither Canceled nor
\* SynthesizingAudioCompleted
AttemptOutcomesV1 == {"words", "no_sub_maker", "empty", "raised"}
AttemptOutcomesV2 == {"words", "empty", "raised", "canceled", "other_reason"}

\* azure_tts_v2 lines 79-94, before the loop: the voice name is not an
\* Azure V2 name (ValueError), the key or region is not configured or the
\* SDK is not installed (None), or all is there
PrecheckOutcomes == {"ok", "invalid_voice", "not_configured", "no_sdk"}

TtsInit ==
    /\ CoreIdle
    /\ ToolsIdleBut("tts")
    /\ tts_version \in {"v1", "v2"}
    /\ tts_i = 0
    /\ attempts = <<>>
    /\ tts_result = "pending"
    /\ tpc = "start"

\* lines 61-63 (v1: nothing can stop the call) and 79-94 (v2)
TtsPrecheck ==
    /\ tpc = "start"
    /\ \E check \in PrecheckOutcomes :
          IF tts_version = "v1" \/ check = "ok"
          THEN tpc' = "loop" /\ tts_result' = tts_result
          ELSE /\ tpc' = "done"
               /\ tts_result' = IF check = "invalid_voice" THEN "ValueError" ELSE "None"
    /\ UNCHANGED <<tts_version, tts_i, attempts>>
    /\ UNCHANGED outsideTts

\* azure_tts_v1, one iteration of lines 64-74
TtsAttemptV1 ==
    /\ tpc = "loop"
    /\ tts_version = "v1"
    /\ tts_i < TtsTries
    /\ \E outcome \in AttemptOutcomesV1 :
          /\ attempts' = Append(attempts, outcome)
          /\ IF outcome = "words"
             THEN tts_result' = "sub_maker" /\ tpc' = "done"
             ELSE tts_result' = tts_result /\ tpc' = tpc
    /\ tts_i' = tts_i + 1
    /\ UNCHANGED tts_version
    /\ UNCHANGED outsideTts

\* azure_tts_v2, one iteration of lines 96-135
TtsAttemptV2 ==
    /\ tpc = "loop"
    /\ tts_version = "v2"
    /\ tts_i < TtsTries
    /\ \E outcome \in AttemptOutcomesV2 :
          /\ attempts' = Append(attempts, outcome)
          /\ CASE outcome = "words" -> tts_result' = "sub_maker" /\ tpc' = "done"
               \* lines 123-125: completed, but no word boundary: return None
               [] outcome = "empty" -> tts_result' = "None" /\ tpc' = "done"
               [] OTHER -> tts_result' = tts_result /\ tpc' = tpc
    /\ tts_i' = tts_i + 1
    /\ UNCHANGED tts_version
    /\ UNCHANGED outsideTts

\* lines 75-76 and 136-137: the loop is over, None is returned
TtsGiveUp ==
    /\ tpc = "loop"
    /\ tts_i >= TtsTries
    /\ tts_result' = "None"
    /\ tpc' = "done"
    /\ UNCHANGED <<tts_version, tts_i, attempts>>
    /\ UNCHANGED outsideTts

TtsNext == TtsPrecheck \/ TtsAttemptV1 \/ TtsAttemptV2 \/ TtsGiveUp

SpecTts == TtsInit /\ [][TtsNext]_vars

\* ---------------------------------------- compose_final_video: claims
\* the positions, in list order, of the scenes the loop does not skip
RECURSIVE CompleteScenesFrom(_)
CompleteScenesFrom(idx) ==
    IF idx > Len(scenes) THEN <<>>
    ELSE (IF SceneIsComplete(scenes[idx]) THEN <<idx>> ELSE <<>>)
         \o CompleteScenesFrom(idx + 1)

CompleteScenes == CompleteScenesFrom(1)

RECURSIVE TotalDuration(_)
\* the duration of the concatenation of the clips
TotalDuration(clips) ==
    IF clips = <<>> THEN 0 ELSE Head(clips).duration + TotalDuration(Tail(clips))

RECURSIVE DeclaredDuration(_)
\* the sum of duration_seconds over the scenes at the given positions
DeclaredDuration(positions) ==
    IF positions = <<>> THEN 0
    ELSE scenes[Head(positions)].duration_seconds + DeclaredDuration(Tail(positions))

ClipsOfScene(idx) == { k \in DOMAIN video_clips : video_clips[k].index = idx }

\* C3: no per-scene failure leaves compose_final_video: whatever asset is
\* missing or unreadable, a failure while building the error placeholder
\* included, every scene the loop has handled has exactly one clip and the
\* function goes on. (Stated for the scenes that carry a number, a type
\* and a duration: the loop skips the others on purpose, see C4.)
C3_NoSceneFailureEscapes ==
    /\ result # "raised"
    /\ \A idx \in 1..Len(scenes) :
           (idx < scene_idx /\ SceneIsComplete(scenes[idx]))
               => Cardinality(ClipsOfScene(idx)) = 1

C9_ClipsInSceneNumberOrder ==
    result = "True" =>
        \A k, l \in DOMAIN timeline :
            k < l => scenes[timeline[k].index].scene_number
                         < scenes[timeline[l].index].scene_number

\* the rank of the scene at position idx among the ai_image scenes handled
AiRank(idx) ==
    Cardinality({ j \in 1..idx : /\ SceneIsComplete(scenes[j])
                                 /\ scenes[j].visual_type = "ai_image" })

\* C10: the N-th ai_image scene in scene order gets the N-th image of the
\* pool in numeric file name order (1.jpeg, 2.jpeg, .., 10.jpeg, ..), for a
\* pool of any size, and a placeholder once the pool is exhausted.
\* (Stated for the runs in which every image read so far was readable.)
C10_NthAiSceneGetsNthImage ==
    ~error_occurred =>
        \A k \in DOMAIN video_clips :
            scenes[video_clips[k].index].visual_type = "ai_image" =>
                LET N == AiRank(video_clips[k].index)
                IN IF N <= ai_images_count
                   THEN /\ video_clips[k].kind = "media"
                        /\ video_clips[k].source = FileName(N)
                   ELSE video_clips[k].kind = "placeholder"

\* the scene a clip was made for
SceneOf(clip) == scenes[clip.index]

\* C11: the clip made from a readable hook file lasts
\* min(duration_seconds, duration of the hook file, MAX_HOOK_DURATION): never
\* longer than MAX_HOOK_DURATION, never longer than the hook file.
C11_HookClipLastsMinimum ==
    \A k \in DOMAIN video_clips :
        (SceneOf(video_clips[k]).visual_type = "hook" /\ video_clips[k].kind = "media")
            => /\ video_clips[k].duration =
                      Min(Min(SceneOf(video_clips[k]).duration_seconds,
                              video_clips[k].asset), MAX_HOOK_DURATION)
               /\ video_clips[k].duration <= MAX_HOOK_DURATION
               /\ video_clips[k].duration <= video_clips[k].asset

\* C12: the clip made from a readable stock video or product video lasts
\* exactly duration_seconds: the file is looped to duration_seconds when it
\* is shorter, cut to its first duration_seconds otherwise.
C12_VideoClipLoopedOrTrimmed ==
    \A k \in DOMAIN video_clips :
        (/\ SceneOf(video_clips[k]).visual_type \in {"stock_video", "product_video"}
         /\ video_clips[k].kind = "media")
            => LET d == SceneOf(video_clips[k]).duration_seconds
               IN /\ video_clips[k].duration = d
                  /\ video_clips[k].loaded = d
                  /\ video_clips[k].fit =
                         (IF video_clips[k].asset < d THEN "loop" ELSE "subclip")

\* a looped stock video and a cut product video in one run
C12_Witness ==
    /\ result = "True"
    /\ \E k \in DOMAIN timeline :
           /\ SceneOf(timeline[k]).visual_type = "stock_video"
           /\ timeline[k].fit = "loop"
           /\ timeline[k].asset < timeline[k].duration
    /\ \E k \in DOMAIN timeline :
           /\ SceneOf(timeline[k]).visual_type = "product_video"
           /\ timeline[k].fit = "subclip"
           /\ timeline[k].asset > timeline[k].duration

\* the asset of the scene being handled turns out not to be resolvable
\* (read from what the step learns about the files and the stock map)
AssetUnresolved ==
    LET scene == scenes[scene_idx]
    IN \/ scene.visual_type = "hook" /\ hook_file' = "missing"
       \/ scene.visual_type = "ai_image" /\ ai_images_count' <= ai_image_index
       \/ /\ scene.visual_type = "stock_video"
          /\ stock_videos_map'[scene.scene_number] = "none"
       \/ scene.visual_type = "product_shot" /\ product_image_file' = "missing"
       \/ scene.visual_type = "product_video" /\ product_video_file' = "missing"
       \/ scene.visual_type \notin VisualTypes

ItemTexts == [k \in 1..Len(sub_items) |-> sub_items[k].text]

\* the word-boundary event at position j carries a word
IsWord(j) == Strip(subs[j].text) # <<>>

\* C14: when the word stream is exhausted while script lines remain, all
\* the remaining script lines are appended as one final entry that ends at
\* the end of the last timed word: the entries of a subtitle file that was
\* written carry, together, the whole reference text.
C14_RemainingSegmentsAppended ==
    (spc = "done" /\ subtitle_success = "True" /\ word_idx = Len(subs))
        => /\ Join(ItemTexts) = Join(script_lines)
           /\ sub_items[Len(sub_items)].end = subs[Len(subs)].end

\* the words accumulated since the previous entry, before the current word
AccumulatedWords ==
    { j \in 1..word_idx :
        /\ IsWord(j)
        /\ sub_items = <<>> \/ subs[j].start > sub_items[Len(sub_items)].end }

\* the words an entry covers
WordsWithin(item) ==
    { j \in 1..Len(subs) :
        IsWord(j) /\ subs[j].start >= item.start /\ subs[j].end <= item.end }

\* C15, the entries: numbered 1..n, the k-th one carrying the k-th script
\* line and covering between 1 and BlockWordLimit words
C15_Entries ==
    \A k \in 1..Len(sub_items) :
        /\ sub_items[k].idx = k
        /\ sub_items[k].text = script_lines[k]
        /\ Cardinality(WordsWithin(sub_items[k])) \in 1..BlockWordLimit

\* C15, one iteration of the loop over a word: the entry is closed, and
\* the next script line becomes the current one, exactly when the words
\* accumulated reach BlockWordLimit, or the word and the current script
\* line both end in punctuation, or the word is the last timed word
C15_Step ==
    (spc = "loop" /\ SubtitleLoopGoesOn /\ word_idx' = word_idx + 1
     /\ IsWord(word_idx + 1))
        => LET word == Strip(subs[word_idx + 1].text)
               line == script_lines[script_line_idx + 1]
               opened == IF AccumulatedWords = {} THEN word_idx + 1
                         ELSE CHOOSE j \in AccumulatedWords :
                                  \A l \in AccumulatedWords : j <= l
               closes == \/ Cardinality(AccumulatedWords) + 1 >= BlockWordLimit
                         \/ /\ EndsWithSplitPunctuation(word)
                            /\ EndsWithSplitPunctuation(line)
                         \/ word_idx + 1 = Len(subs)
           IN IF closes
              THEN /\ sub_items' = Append(sub_items,
                          [idx |-> Len(sub_items) + 1,
                           start |-> subs[opened].start,
                           end |-> subs[word_idx + 1].end,
                           text |-> line])
                   /\ script_line_idx' = script_line_idx + 1
              ELSE /\ sub_items' = sub_items
                   /\ script_line_idx' = script_line_idx

\* C15: create_subtitle walks the timed words in order and closes the
\* current entry, advancing to the next script line, exactly when (a) the
\* non-empty words accumulated since the previous entry reach 8, (b) the
\* word and the current script line both end in punctuation, or (c) the
\* word is the last timed word; so no entry covers more than 8 (non-empty)
\* timed words, entries are numbered 1..n and the k-th entry carries the
\* k-th script line.
C15_ClosesOnLimitPunctuationOrLastWord ==
    [](C15_Entries) /\ [][C15_Step]_vars

\* an entry closed by the word limit, followed by an entry closed by the
\* last word
C15_Witness ==
    /\ spc = "done"
    /\ subtitle_success = "True"
    /\ Len(sub_items) >= 2
    /\ Cardinality(WordsWithin(sub_items[1])) = BlockWordLimit
    /\ sub_items[Len(sub_items)].end = subs[Len(subs)].end

\* ------------------------------------------------- run_pipeline: claims
\* the positions of the log at which a stage returned
LogOf(stage) == { k \in DOMAIN stage_log : stage_log[k].stage = stage }

\* the run is over: run_pipeline returned or raised
RunOver == ppc = "done"

\* C16: when script generation (or an empty script text), audio synthesis
\* or video composition fails, no later stage is run, nothing is written
\* at the final video path and no video path is returned; a failure of
\* hook analysis, image generation or stock video search is followed by
\* the next stage.
C16_FatalStagesHaltOthersDoNot ==
    \A k \in DOMAIN stage_log :
        /\ (stage_log[k].stage \in {"script", "audio", "compose"}
            /\ ~stage_log[k].success)
              => /\ k = Len(stage_log)
                 /\ running = "none"
                 /\ RunOver
                 /\ final_video \in FinalVideoBefore
                 /\ returned \in {"None", "raised"}
        /\ (stage_log[k].stage \in {"hook", "images", "stock"}
            /\ ~stage_log[k].success /\ k = Len(stage_log))
              => /\ ~RunOver
                 /\ returned = "pending"
                 /\ ppc = (CASE stage_log[k].stage = "hook" -> "script"
                             [] stage_log[k].stage = "images" -> "stock"
                             [] stage_log[k].stage = "stock" -> "audio")

\* hook analysis, image generation and stock search all failed, the run
\* went on, and the composition failed: the run halted there
C16_Witness ==
    /\ RunOver
    /\ returned = "None"
    /\ \A st \in {"hook", "images", "stock"} :
           \E k \in LogOf(st) : ~stage_log[k].success
    /\ stage_log[Len(stage_log)].stage = "compose"
    /\ stage_log[Len(stage_log)].outcome = "False"

\* the stages of the claim, by the order the claim gives them
StageRank(stage) ==
    CASE stage = "hook" -> 0
      [] stage = "script" -> 1
      [] stage \in {"images", "stock", "audio"} -> 2
      [] stage = "compose" -> 3
      [] stage = "captions" -> 4

\* C17: the stages of one run never overlap and occur in order: script
\* generation returns before image generation, stock search and speech
\* synthesis start; all of these return before compositing starts;
\* compositing returns before the caption overlay starts.
C17_StagesInOrder ==
    /\ \A k, l \in DOMAIN stage_log :
           k < l => /\ stage_log[k].stage # stage_log[l].stage
                    /\ StageRank(stage_log[k].stage) <= StageRank(stage_log[l].stage)
    /\ running # "none" =>
           /\ LogOf(running) = {}
           /\ \A k \in DOMAIN stage_log :
                  StageRank(stage_log[k].stage) <= StageRank(running)
           /\ running \in {"images", "stock", "audio"} => LogOf("script") # {}
           /\ running = "compose" =>
                  \A st \in {"script", "images", "stock", "audio"} : LogOf(st) # {}
           /\ running = "captions" => LogOf("compose") # {}

\* the caption overlay is running, after every other stage returned
C17_Witness ==
    /\ running = "captions"
    /\ Len(stage_log) = Cardinality(Stages) - 1

\* composition succeeded and add_captions_to_video did not write the
\* captioned video
OverlayFailed ==
    /\ RunOver
    /\ LogOf("captions") # {}
    /\ ~stage_log[Len(stage_log)].success

C19_SubtitleFailureNotFatal ==
    \A k \in LogOf("audio") :
        stage_log[k].outcome = "subtitle_failed"
            => (stage_log[k].success /\ ~RunOver)

\* -------------------------------------------- caption grouper: claims
\* the words of a block, read back from its text
WordsOf(block) == Split(block.text)

RECURSIVE FlattenTexts(_)
\* the words of the blocks, concatenated in block order
FlattenTexts(blocks) ==
    IF blocks = <<>> THEN <<>>
    ELSE WordsOf(blocks[1]) \o FlattenTexts(Tail(blocks))

InputTexts == [k \in 1..Len(timed_words) |-> timed_words[k].text]

\* index in timed_words of the first and of the last word of block k
FirstWordOf(k) == Len(FlattenTexts(SubSeq(grouped_captions, 1, k - 1))) + 1
LastWordOf(k) == Len(FlattenTexts(SubSeq(grouped_captions, 1, k)))

\* C1: when group_words_into_captions has returned, the words of the blocks,
\* split on spaces and concatenated in block order, are exactly the input
\* word texts in input order (nothing dropped, duplicated or reordered).
C1_NoWordDroppedOrDuplicated ==
    gpc = "done" => FlattenTexts(grouped_captions) = InputTexts

C1_Witness ==
    /\ gpc = "done"
    /\ Len(timed_words) = MaxLen
    /\ Len(grouped_captions) >= 2
    /\ \E k \in 1..Len(grouped_captions) : Len(WordsOf(grouped_captions[k])) >= 2

\* C2: every returned block holds at most max_words_per_caption words,
\* the block that receives the final input word included.
C2_BlockWithinMaxWords ==
    gpc = "done" =>
        \A k \in 1..Len(grouped_captions) :
            Len(WordsOf(grouped_captions[k])) <= max_words_per_caption

\* C5: a word whose text ends in punctuation is always the last word of
\* its block, whether it was the first word of its group or a later one.
C5_PunctuatedWordEndsBlock ==
    gpc = "done" =>
        \A k \in 1..Len(grouped_captions) :
            LET ws == WordsOf(grouped_captions[k])
            IN \A p \in 1..Len(ws) :
                   EndsWithPunctuation(ws[p]) => p = Len(ws)

\* C6: a word that arrives while the open group holds max_words words, or
\* whose end would make the group span exceed max_duration, closes the
\* group without itself and becomes the first word of the next group; the
\* final input word is instead included in the block being closed; a
\* triggering word that exceeds neither limit is included in the block
\* being closed.
C6_TieBreak ==
    [][ (gpc = "loop" /\ i <= Len(timed_words) /\ current_group_words # <<>>
         /\ i' = i + 1)
        => LET w == timed_words[i]
               exceeds == \/ Len(current_group_words) >= max_words_per_caption
                          \/ w.end - current_start_time > max_duration_per_caption
               last == i = Len(timed_words)
               closedWithout ==
                   grouped_captions' = Append(grouped_captions,
                       [start |-> current_start_time,
                        end |-> last_word_end_time,
                        text |-> Join(current_group_words)])
               closedWith ==
                   grouped_captions' = Append(grouped_captions,
                       [start |-> current_start_time,
                        end |-> w.end,
                        text |-> Join(Append(current_group_words, w.text))])
           IN /\ (exceeds /\ ~last) =>
                    /\ closedWithout
                    /\ current_group_words' = <<w.text>>
                    /\ current_start_time' = w.start
              /\ (exceeds /\ last) =>
                    (closedWith /\ current_group_words' = <<>>)
              /\ (~exceeds /\ (EndsWithPunctuation(w.text) \/ last)) =>
                    (closedWith /\ current_group_words' = <<>>)
      ]_vars

\* a group was closed by a word that exceeded a limit: the word opens the
\* next group, and the closed block does not end in punctuation
C6_Witness ==
    /\ gpc = "loop"
    /\ i >= 3
    /\ grouped_captions # <<>>
    /\ Len(current_group_words) = 1
    /\ Len(FlattenTexts(grouped_captions)) = i - 2
    /\ ~EndsWithPunctuation(timed_words[i - 2].text)

\* C7: every returned block of two or more words spans at most
\* max_duration_per_caption (end of its last word minus start of its first).
C7_MultiWordBlockWithinMaxDuration ==
    gpc = "done" =>
        \A k \in 1..Len(grouped_captions) :
            Len(WordsOf(grouped_captions[k])) >= 2 =>
                timed_words[LastWordOf(k)].end - timed_words[FirstWordOf(k)].start
                    <= max_duration_per_caption

\* the input is sorted by start, with end >= start and end[k] <= start[k+1]
SortedNonOverlapping ==
    /\ \A k \in 1..Len(timed_words) : timed_words[k].end >= timed_words[k].start
    /\ \A k \in 1..(Len(timed_words) - 1) :
           timed_words[k].end <= timed_words[k + 1].start

\* C8: for sorted, non-overlapping input every block starts at the start of
\* its first word and ends at the end of its last word; so end >= start in
\* every block, and block starts and block ends are non-decreasing.
C8_BlockTimesFollowWords ==
    SortedNonOverlapping =>
        /\ \A k \in 1..Len(grouped_captions) :
               /\ grouped_captions[k].start = timed_words[FirstWordOf(k)].start
               /\ grouped_captions[k].end = timed_words[LastWordOf(k)].end
               /\ grouped_captions[k].end >= grouped_captions[k].start
        /\ \A k \in 1..(Len(grouped_captions) - 1) :
               /\ grouped_captions[k].start <= grouped_captions[k + 1].start
               /\ grouped_captions[k].end <= grouped_captions[k + 1].end

C8_Witness ==
    /\ gpc = "done"
    /\ SortedNonOverlapping
    /\ Len(grouped_captions) >= 2
    /\ \E k \in 1..Len(grouped_captions) :
           /\ Len(WordsOf(grouped_captions[k])) >= 2
           /\ grouped_captions[k].end > grouped_captions[k].start

\* ------------------------------------------------ load_captions: claims
\* the positions of the words of the file that carry a text
RECURSIVE TextsOfFile(_)
TextsOfFile(words) ==
    IF words = <<>> THEN <<>>
    ELSE (IF "text" \in Head(words).keys THEN <<Head(words).text>> ELSE <<>>)
         \o TextsOfFile(Tail(words))

\* C20: a malformed timed word (start, end or text missing, or end before
\* start) never makes the caption grouping raise nor the whole list be
\* rejected: it is taken as a zero-duration word at its start, and all the
\* other words are grouped, so every block has end >= start.
C20_MalformedWordClamped ==
    load_result # "FileError" =>
        /\ load_result # "ValueError"
        /\ gpc = "done" =>
               /\ FlattenTexts(grouped_captions) = TextsOfFile(captions_json)
               /\ \A k \in 1..Len(grouped_captions) :
                      grouped_captions[k].end >= grouped_captions[k].start

\* ------------------------------------------------ claims on blank words
\* word_text.strip() == ""
IsBlank(word_text) == \A k \in 1..Len(word_text) : word_text[k] = " "

SpokenWords == { k \in 1..Len(timed_words) : ~IsBlank(timed_words[k].text) }

\* the text is " ".join of non-blank words: not empty, no space at either
\* end, no two spaces in a row
JoinOfSpokenWords(text) ==
    /\ text # <<>>
    /\ text[1] # " "
    /\ text[Len(text)] # " "
    /\ \A k \in 1..(Len(text) - 1) : ~(text[k] = " " /\ text[k + 1] = " ")

\* C21: a timed word whose text is empty or whitespace-only is ignored by
\* group_words_into_captions: every returned block's text is made of
\* non-blank words only, every block starts at the start of a non-blank word
\* and ends at the end of a non-blank word.
C21_BlankWordIgnored ==
    gpc = "done" =>
        \A b \in 1..Len(grouped_captions) :
            /\ JoinOfSpokenWords(grouped_captions[b].text)
            /\ \E k \in SpokenWords : timed_words[k].start = grouped_captions[b].start
            /\ \E k \in SpokenWords : timed_words[k].end = grouped_captions[b].end

\* ---------------------------------------------------- bulk mode: claims
\* C22: the runs of the CSV rows are strictly serialized (never two runs
\* that have not returned), a run after the first starts only when exactly
\* 60 seconds of pause have elapsed since the previous run returned or
\* raised, and every row is run, whatever the earlier runs did and whatever
\* blank lines the file holds.
C22_RunStep ==
    (bpc = "loop" /\ bpc' = "running" /\ bulk_i > 0) => slept = PauseSeconds

C22_SerializedWithPause ==
    /\ [](active <= 1)
    /\ [](bpc = "done" => Len(results) = Len(Rows(csv_lines)))
    /\ [][C22_RunStep]_vars

\* two rows with a blank line in between, the first run raised, both ran
C22_Witness ==
    /\ bpc = "done"
    /\ csv_lines = <<"row", "blank", "row">>
    /\ Len(results) = 2
    /\ results[1].status = "Erreur"

\* C30: a row is recorded with status OK only if its run_pipeline call
\* produced a final video file (returned the path, not None).
C30_OkOnlyWithVideo ==
    \A k \in 1..Len(results) :
        results[k].status = "OK" => results[k].video = "path"

\* ------------------------------------------------- key rotation: claims
\* the keys returned to one provider, in call order
KeysReturned(key_type) ==
    SelectSeq(key_calls, LAMBDA c : c.key_type = key_type)

KeyRotationOf(api_keys, idx, returned_keys) ==
    api_keys # <<>> =>
        /\ idx \in 0..(Len(api_keys) - 1)
        /\ idx = Len(returned_keys) % Len(api_keys)
        /\ \A k \in 1..Len(returned_keys) :
              /\ ~returned_keys[k].raised
              /\ returned_keys[k].key = api_keys[((k - 1) % Len(api_keys)) + 1]
        \* any n consecutive calls use every key exactly once
        /\ \A k \in 1..(Len(returned_keys) - Len(api_keys) + 1) :
              { returned_keys[j].key : j \in k..(k + Len(api_keys) - 1) }
                  = { api_keys[j] : j \in 1..Len(api_keys) }

\* C23: with a fixed list of n keys the k-th call of get_rotating_api_key
\* for a provider returns key number (k-1) mod n, n consecutive calls use
\* every key once, the index stays within 0..n-1, and a call for one
\* provider leaves the other provider's index unchanged.
C23_CallStep ==
    /\ pexels_key_index' # pexels_key_index
          => key_calls'[Len(key_calls')].key_type = "pexels"
    /\ pixabay_key_index' # pixabay_key_index
          => key_calls'[Len(key_calls')].key_type = "pixabay"

C23_RoundRobin ==
    /\ [](KeyRotationOf(pexels_api_keys, pexels_key_index, KeysReturned("pexels")))
    /\ [](KeyRotationOf(pixabay_api_keys, pixabay_key_index, KeysReturned("pixabay")))
    /\ [][C23_CallStep]_vars

\* two pexels keys used three times (the index wrapped), three pixabay keys
\* used in between
C23_Witness ==
    /\ Len(pexels_api_keys) = 2
    /\ Len(pixabay_api_keys) = 3
    /\ Len(KeysReturned("pexels")) = 3
    /\ Len(KeysReturned("pixabay")) = 2
    /\ key_calls[2].key_type = "pixabay"
    /\ key_calls[5].key_type = "pexels"

\* ---------------------------------------------- format_time_srt: claims
RECURSIVE DecimalValue(_)
\* the number a string of decimal digits writes
DecimalValue(ds) ==
    IF ds = <<>> THEN 0
    ELSE 10 * DecimalValue(SubSeq(ds, 1, Len(ds) - 1)) + (Ord(ds[Len(ds)]) - Ord("0"))

\* the whole number of milliseconds in max(t, 0)
WholeMilliseconds(t) == IF t.negative THEN 0 ELSE t.ms

\* C24: format_time_srt renders t seconds as HH:MM:SS,mmm whose fields
\* encode the whole number of milliseconds in max(t, 0), truncated: hours *
\* 3600000 + minutes * 60000 + seconds * 1000 + millis is that number,
\* minutes and seconds are within 0..59, millis within 0..999, hours has at
\* least two digits and is not wrapped.
C24_FieldsEncodeWholeMilliseconds ==
    fpc = "done" =>
        LET n == Len(fmt_text)
            hours == DecimalValue(SubSeq(fmt_text, 1, n - 10))
            minutes == DecimalValue(SubSeq(fmt_text, n - 8, n - 7))
            seconds_part == DecimalValue(SubSeq(fmt_text, n - 5, n - 4))
            millis == DecimalValue(SubSeq(fmt_text, n - 2, n))
        IN /\ n >= 12
           /\ fmt_text[n - 9] = ":"
           /\ fmt_text[n - 6] = ":"
           /\ fmt_text[n - 3] = ","
           /\ minutes \in 0..59
           /\ seconds_part \in 0..59
           /\ millis \in 0..999
           /\ hours * 3600000 + minutes * 60000 + seconds_part * 1000 + millis
                 = WholeMilliseconds(fmt_ticks)

C26_ReturnedFileIsWhole ==
    /\ \A k \in 1..Len(save_log) :
          save_log[k].returned = "path" => save_log[k].file = "whole_big"
    /\ ExistsWithSize(video_file) => video_file = "whole_big"

\* ---------------------------------------------- generate_images: claims
\* C27: generate_images saves every generated image under a name not yet
\* in the directory: after k successes into an empty directory it holds
\* exactly the k files 1.jpeg .. k.jpeg (none was overwritten).
C27_ImagesNumberedWithoutOverwrite ==
    DOMAIN images_dir = 1..Len(generated_image_paths)

\* C28: across one run every ai_image scene composed with an AI image gets
\* the image generated from that scene's own visual_description.
C28_SceneGetsItsOwnImage ==
    \A c \in 1..Len(video_clips) :
        (video_clips[c].kind = "media") =>
            \E n \in DOMAIN images_dir :
                /\ FileName(n) = video_clips[c].source
                /\ images_dir[n] = Strip(scenes[video_clips[c].index].visual_description)

\* -------------------------------------------------- azure_tts: claims
\* C29: azure_tts_v1 and azure_tts_v2 make at most 3 synthesis attempts,
\* return the result of the first attempt that yields word boundaries and
\* attempt nothing after it, and, once synthesis has been attempted,
\* return None only after 3 attempts none of which yielded word boundaries
\* (every failed or empty attempt is retried while attempts remain).
C29_ThreeAttemptsFirstSuccessReturned ==
    /\ Len(attempts) <= 3
    /\ \A k \in 1..(Len(attempts) - 1) : attempts[k] # "words"
    /\ tts_result = "sub_maker" =>
          (attempts # <<>> /\ attempts[Len(attempts)] = "words")
    /\ (attempts # <<>> /\ attempts[Len(attempts)] = "words") =>
          tts_result = "sub_maker"
    /\ (tts_result = "None" /\ attempts # <<>>) => Len(attempts) = 3

====
